---- MODULE Spec2Model ----
(***************************************************************************)
(* Ink stroking of pathkit (modules/pathkit/src/InkStrokeUtils.cpp):       *)
(* reversePathTo, InkStroker, InkStroke::strokeInk and StrokeInkWithPaint. *)
(*                                                                         *)
(* Scalars.  A coordinate is an integer number of grid units plus a        *)
(* number `e` of offsets that are smaller than the teeny-line tolerance    *)
(* (SK_ScalarNearlyZero * fInvResScale); a point whose coordinates are not *)
(* all finite floats has fin = FALSE.  A unit vector is kept in units of   *)
(* 1/UnitOne, so that the unit vectors of the segments of the input grid   *)
(* (lengths 3, 4 and 5) and their products with the radii are exact.       *)
(***************************************************************************)
EXTENDS Integers, Sequences, FiniteSets, TLC

\* ------------------------------------------------------------------------
\* Bounds of the model
\* ------------------------------------------------------------------------
\* largest point_count handed to StrokeInkWithPaint
MaxPoints == 3
\* largest number of InkStroker operations in one run of SpecStroker
MaxOps == 4

\* 1.0 of a unit vector: the least common multiple of the segment lengths
UnitOne == 3 * 4 * 5

\* ------------------------------------------------------------------------
\* SkPoint / SkVector
\* ------------------------------------------------------------------------
Pt(x, y) == [x |-> x, y |-> y, e |-> 0, fin |-> TRUE]
PtE(x, y, e) == [x |-> x, y |-> y, e |-> e, fin |-> TRUE]
NonFinitePt == [x |-> 0, y |-> 0, e |-> 0, fin |-> FALSE]
ZeroPt == Pt(0, 0)

\* a + b and a - b; a non-finite operand makes the result non-finite
PtAdd(a, b) ==
    IF a.fin /\ b.fin
    THEN [x |-> a.x + b.x, y |-> a.y + b.y, e |-> a.e + b.e, fin |-> TRUE]
    ELSE NonFinitePt
PtSub(a, b) ==
    IF a.fin /\ b.fin
    THEN [x |-> a.x - b.x, y |-> a.y - b.y, e |-> a.e - b.e, fin |-> TRUE]
    ELSE NonFinitePt
PtNeg(a) == PtSub(ZeroPt, a)

\* SkPoint operator!= : any coordinate differs (NaN differs from everything)
PointNE(a, b) ==
    \/ ~a.fin
    \/ ~b.fin
    \/ a.x # b.x
    \/ a.y # b.y
    \/ a.e # b.e

\* SkPointPriv::EqualsWithinTolerance: both coordinate differences are nearly
\* zero; a sub-tolerance offset e is below the tolerance, a grid unit is not,
\* and a non-finite difference is never nearly zero
EqualsWithinTolerance(a, b) ==
    /\ a.fin
    /\ b.fin
    /\ a.x = b.x
    /\ a.y = b.y

\* SkPointPriv::RotateCCW / RotateCW
RotateCCW(v) == [x |-> v.y, y |-> -v.x, e |-> 0, fin |-> v.fin]
RotateCW(v) == [x |-> -v.y, y |-> v.x, e |-> 0, fin |-> v.fin]

\* floor of the square root
ISqrt(n) == CHOOSE k \in 0..n : k * k <= n /\ (k + 1) * (k + 1) > n

Sign(n) == IF n > 0 THEN 1 ELSE IF n < 0 THEN -1 ELSE 0

\* SkPoint::setNormalize(dx, dy): fails on a zero or non-finite vector,
\* otherwise gives the unit vector (in units of 1/UnitOne)
CanNormalize(d) == d.fin /\ (d.x # 0 \/ d.y # 0 \/ d.e # 0)
Normalized(d) ==
    IF d.x = 0 /\ d.y = 0
    THEN Pt(Sign(d.e) * UnitOne, 0)
    ELSE LET len == ISqrt(d.x * d.x + d.y * d.y)
         IN  Pt((d.x * UnitOne) \div len, (d.y * UnitOne) \div len)

\* SkPoint::scale(scalar) of a unit vector: a vector in grid units
UnitScale(u, r) == Pt((u.x * r) \div UnitOne, (u.y * r) \div UnitOne)

\* SkPoint::DotProduct of two unit vectors, in units of 1/UnitOne
UnitDot(a, b) == (a.x * b.x + a.y * b.y) \div UnitOne

\* a vector times an integer scalar
PtScale(a, k) ==
    IF a.fin
    THEN [x |-> a.x * k, y |-> a.y * k, e |-> a.e * k, fin |-> TRUE]
    ELSE NonFinitePt

\* the result of set_normal_unitnormal(before, after, scale, radius, ..)
set_normal_unitnormal(before, after, scale, radius) ==
    LET d == PtScale(PtSub(after, before), scale)
    IN  IF ~CanNormalize(d)
        THEN [ok |-> FALSE, normal |-> ZeroPt, unitNormal |-> ZeroPt]
        ELSE LET u == RotateCCW(Normalized(d))
             IN  [ok |-> TRUE, normal |-> UnitScale(u, radius), unitNormal |-> u]

\* ------------------------------------------------------------------------
\* SkPath: the verb array, the point array and the conic weights
\* ------------------------------------------------------------------------
EmptyPath == [verbs |-> <<>>, pts |-> <<>>, ws |-> <<>>]

\* SkPathPriv::PtsInVerb
PtsInVerb(v) ==
    CASE v = "Move" -> 1
      [] v = "Line" -> 1
      [] v = "Quad" -> 2
      [] v = "Conic" -> 2
      [] v = "Cubic" -> 3
      [] v = "Close" -> 0

SkPath_countVerbs(p) == Len(p.verbs)
SkPath_countPoints(p) == Len(p.pts)
SkPath_isEmpty(p) == SkPath_countVerbs(p) = 0
LastVerb(p) == IF SkPath_isEmpty(p) THEN "None" ELSE p.verbs[Len(p.verbs)]

\* the number of points the first k verbs hold
RECURSIVE PtsBefore(_, _)
PtsBefore(verbs, k) ==
    IF k = 0 THEN 0 ELSE PtsBefore(verbs, k - 1) + PtsInVerb(verbs[k])

\* the point of the last Move verb (what fLastMoveToIndex names)
LastMovePt(p) ==
    LET k == CHOOSE j \in 1..Len(p.verbs) :
                 /\ p.verbs[j] = "Move"
                 /\ \A m \in (j + 1)..Len(p.verbs) : p.verbs[m] # "Move"
    IN  p.pts[PtsBefore(p.verbs, k)]

\* SkPath::moveTo: always starts a new contour
SkPath_moveTo(p, pt) ==
    [p EXCEPT !.verbs = Append(@, "Move"), !.pts = Append(@, pt)]

\* SkPath::injectMoveToIfNeeded: a segment verb on a path with no open
\* contour first starts one, at (0,0) or at the closed contour's start
SkPath_injectMoveToIfNeeded(p) ==
    IF SkPath_isEmpty(p) THEN SkPath_moveTo(p, ZeroPt)
    ELSE IF LastVerb(p) = "Close" THEN SkPath_moveTo(p, LastMovePt(p))
    ELSE p

SkPath_lineTo(p, pt) ==
    LET q == SkPath_injectMoveToIfNeeded(p)
    IN  [q EXCEPT !.verbs = Append(@, "Line"), !.pts = Append(@, pt)]

SkPath_quadTo(p, p1, p2) ==
    LET q == SkPath_injectMoveToIfNeeded(p)
    IN  [q EXCEPT !.verbs = Append(@, "Quad"), !.pts = @ \o <<p1, p2>>]

SkPath_conicTo(p, p1, p2, w) ==
    LET q == SkPath_injectMoveToIfNeeded(p)
    IN  [q EXCEPT !.verbs = Append(@, "Conic"),
                  !.pts = @ \o <<p1, p2>>,
                  !.ws = Append(@, w)]

SkPath_cubicTo(p, p1, p2, p3) ==
    LET q == SkPath_injectMoveToIfNeeded(p)
    IN  [q EXCEPT !.verbs = Append(@, "Cubic"), !.pts = @ \o <<p1, p2, p3>>]

\* SkPath::close: appends Close unless the path is empty or already closed
SkPath_close(p) ==
    IF SkPath_isEmpty(p) \/ LastVerb(p) = "Close"
    THEN p
    ELSE [p EXCEPT !.verbs = Append(@, "Close")]

\* SkPath::getLastPt: (0,0) when the path has no point
SkPath_getLastPt(p) == IF SkPath_countPoints(p) = 0 THEN ZeroPt ELSE p.pts[Len(p.pts)]

\* SkPath::setLastPt: a moveTo when the path has no point
SkPath_setLastPt(p, pt) ==
    IF SkPath_countPoints(p) = 0
    THEN SkPath_moveTo(p, pt)
    ELSE [p EXCEPT !.pts = [@ EXCEPT ![Len(p.pts)] = pt]]

\* SkPath::isFinite: every coordinate of every point is finite
SkPath_isFinite(p) == \A k \in 1..Len(p.pts) : p.pts[k].fin

\* x coordinates compare by grid units first, then by sub-tolerance offset
LessX(a, b) == a.x < b.x \/ (a.x = b.x /\ a.e < b.e)
LeqX(a, b) == ~LessX(b, a)

\* SkPath::getBounds: the box of all the points; the empty box when there
\* is no point or the path is not finite.  l and r are points whose x part
\* is the bound, t and b are y values.
EmptyRect == [l |-> ZeroPt, r |-> ZeroPt, t |-> 0, b |-> 0]
SkPath_getBounds(p) ==
    IF SkPath_countPoints(p) = 0 \/ ~SkPath_isFinite(p)
    THEN EmptyRect
    ELSE LET S == {p.pts[k] : k \in 1..Len(p.pts)}
         IN  [l |-> CHOOSE a \in S : \A c \in S : LeqX(a, c),
              r |-> CHOOSE a \in S : \A c \in S : LeqX(c, a),
              t |-> CHOOSE y \in {a.y : a \in S} : \A c \in S : y <= c.y,
              b |-> CHOOSE y \in {a.y : a \in S} : \A c \in S : y >= c.y]

\* SkRect::isEmpty and SkRect::contains(const SkRect&)
RectIsEmpty(r) == ~(LessX(r.l, r.r) /\ r.t < r.b)
RectContains(a, r) ==
    /\ ~RectIsEmpty(r)
    /\ ~RectIsEmpty(a)
    /\ LeqX(a.l, r.l)
    /\ a.t <= r.t
    /\ LeqX(r.r, a.r)
    /\ a.b >= r.b

\* ------------------------------------------------------------------------
\* reversePathTo
\* ------------------------------------------------------------------------
\* the loop of reversePathTo: vi verbs are still to visit (verbs - verbsBegin),
\* pi is the index pts points at, wi the index conicWeights points at
RECURSIVE reverseWalk(_, _, _, _, _)
reverseWalk(self, path, vi, pi, wi) ==
    IF vi = 0
    THEN self
    ELSE LET v == path.verbs[vi]
             np == pi - PtsInVerb(v)
         IN  CASE v = "Move" -> self
               [] v = "Line" ->
                    reverseWalk(SkPath_lineTo(self, path.pts[np]), path, vi - 1, np, wi)
               [] v = "Quad" ->
                    reverseWalk(SkPath_quadTo(self, path.pts[np + 1], path.pts[np]),
                                path, vi - 1, np, wi)
               [] v = "Conic" ->
                    reverseWalk(SkPath_conicTo(self, path.pts[np + 1], path.pts[np],
                                        path.ws[wi - 1]),
                                path, vi - 1, np, wi - 1)
               [] v = "Cubic" ->
                    reverseWalk(SkPath_cubicTo(self, path.pts[np + 2], path.pts[np + 1],
                                        path.pts[np]),
                                path, vi - 1, np, wi)
               [] v = "Close" -> reverseWalk(self, path, vi - 1, np, wi)

\* a reversePathTo whose point cursor starts one past the last point
reversePathTo_cursorPastEnd(self, path) ==
    IF SkPath_isEmpty(path)
    THEN self
    ELSE reverseWalk(self, path, SkPath_countVerbs(path),
                     SkPath_countPoints(path) + 1, Len(path.ws) + 1)

reversePathTo(self, path) ==
    IF SkPath_isEmpty(path)
    THEN self
    ELSE reverseWalk(self, path, SkPath_countVerbs(path), SkPath_countPoints(path),
                     Len(path.ws) + 1)

\* ------------------------------------------------------------------------
\* SkStrokerPriv: the cap and join procedures
\* ------------------------------------------------------------------------
Caps == {"Butt", "Round", "Square"}
Joins == {"Miter", "Round", "Bevel"}

\* SkStrokerPriv::CapFactory / JoinFactory: the procedure of a cap / a join
CapFactory(cap) == cap
JoinFactory(join) == join

\* the weight of the conics of a round cap or join
Root2Over2 == "SK_ScalarRoot2Over2"

\* ButtCapper, RoundCapper, SquareCapper: the path with the cap appended.
\* otherPath tells whether the other path was handed over (non-null).
Capper(cap, path, pivot, normal, stop, otherPath) ==
    LET parallel == RotateCW(normal)
        projectedCenter == PtAdd(pivot, parallel)
    IN  CASE cap = "Butt" -> SkPath_lineTo(path, stop)
          [] cap = "Round" ->
               SkPath_conicTo(
                   SkPath_conicTo(path, PtAdd(projectedCenter, normal),
                                  projectedCenter, Root2Over2),
                   PtSub(projectedCenter, normal), stop, Root2Over2)
          [] cap = "Square" ->
               IF otherPath
               THEN SkPath_lineTo(
                        SkPath_setLastPt(path, PtAdd(PtAdd(pivot, normal), parallel)),
                        PtAdd(PtSub(pivot, normal), parallel))
               ELSE SkPath_lineTo(
                        SkPath_lineTo(
                            SkPath_lineTo(path, PtAdd(PtAdd(pivot, normal), parallel)),
                            PtAdd(PtSub(pivot, normal), parallel)),
                        stop)

\* is_clockwise(before, after)
is_clockwise(before, after) == before.x * after.y > before.y * after.x

\* Dot2AngleType
Dot2AngleType(dot) ==
    IF dot >= 0
    THEN (IF dot = UnitOne THEN "NearlyLine" ELSE "Shallow")
    ELSE (IF dot = -UnitOne THEN "Nearly180" ELSE "Sharp")

\* HandleInnerJoin: through the pivot, then to the far side
HandleInnerJoin(inner, pivot, after) ==
    SkPath_lineTo(SkPath_lineTo(inner, pivot), PtSub(pivot, after))

\* the two paths of a join handed back in the stroker's order: the join
\* procedures swap their outer and inner arguments on a counter-clockwise turn
JoinedPaths(swapped, o, i) ==
    IF swapped THEN [outer |-> i, inner |-> o] ELSE [outer |-> o, inner |-> i]

\* BluntJoiner (bevel): [outer, inner] as the stroker's two paths are left
BluntJoiner(outer, inner, beforeUnitNormal, pivot, afterUnitNormal, radius) ==
    LET cw == is_clockwise(beforeUnitNormal, afterUnitNormal)
        after == IF cw THEN UnitScale(afterUnitNormal, radius)
                 ELSE PtNeg(UnitScale(afterUnitNormal, radius))
    IN  JoinedPaths(~cw,
                    SkPath_lineTo(IF cw THEN outer ELSE inner, PtAdd(pivot, after)),
                    HandleInnerJoin(IF cw THEN inner ELSE outer, pivot, after))

\* the arc of RoundJoiner from pivot + b to pivot + a: one conic for a turn of
\* at most a right angle, two conics through pivot + m otherwise
RoundArc(o, short, pivot, b, m, a) ==
    IF short
    THEN SkPath_conicTo(o, PtAdd(pivot, PtAdd(b, a)), PtAdd(pivot, a), Root2Over2)
    ELSE SkPath_conicTo(
             SkPath_conicTo(o, PtAdd(pivot, PtAdd(b, m)), PtAdd(pivot, m),
                            Root2Over2),
             PtAdd(pivot, PtAdd(m, a)), PtAdd(pivot, a), Root2Over2)

\* RoundJoiner: an arc on the outside of the turn
RoundJoiner(outer, inner, beforeUnitNormal, pivot, afterUnitNormal, radius) ==
    LET dot == UnitDot(beforeUnitNormal, afterUnitNormal)
        cw == is_clockwise(beforeUnitNormal, afterUnitNormal)
        b == UnitScale(IF cw THEN beforeUnitNormal ELSE PtNeg(beforeUnitNormal),
                       radius)
        a == UnitScale(IF cw THEN afterUnitNormal ELSE PtNeg(afterUnitNormal),
                       radius)
    IN  IF Dot2AngleType(dot) = "NearlyLine"
        THEN [outer |-> outer, inner |-> inner]
        ELSE JoinedPaths(~cw,
                         RoundArc(IF cw THEN outer ELSE inner, dot >= 0, pivot, b,
                                  IF cw THEN RotateCCW(b) ELSE RotateCW(b), a),
                         HandleInnerJoin(IF cw THEN inner ELSE outer, pivot, a))

\* kOneOverSqrt2 and the sine of the half angle, in units of 1/UnitOne
OneOverSqrt2 == ISqrt((UnitOne * UnitOne) \div 2)
SinHalfAngle(dot) == ISqrt(((UnitOne + dot) * UnitOne) \div 2)

\* a vector set to the given length (SkPoint::setLength)
SetLength(v, len) ==
    LET l == ISqrt(v.x * v.x + v.y * v.y)
    IN  IF l = 0 THEN ZeroPt ELSE Pt((v.x * len) \div l, (v.y * len) \div l)

\* MiterJoiner: the direction of the miter tip
MiterDir(angleType, ccw, before, after) ==
    IF angleType = "Sharp"
    THEN (IF ccw
          THEN Pt(before.y - after.y, after.x - before.x)
          ELSE Pt(after.y - before.y, before.x - after.x))
    ELSE Pt(before.x + after.x, before.y + after.y)

\* MiterJoiner: the outer path with the miter tip (do_miter) or the bevel
\* (do_blunt), then the line to the start of the next segment
MiterTip(o, blunt, prevIsLine, currIsLine, tip, next) ==
    IF blunt
    THEN SkPath_lineTo(o, next)
    ELSE IF currIsLine
    THEN (IF prevIsLine THEN SkPath_setLastPt(o, tip) ELSE SkPath_lineTo(o, tip))
    ELSE SkPath_lineTo(IF prevIsLine THEN SkPath_setLastPt(o, tip)
                       ELSE SkPath_lineTo(o, tip),
                       next)

\* MiterJoiner, once the turn is classified and the normals are oriented
MiterJoin(outer, inner, before, pivot, after, radius, invMiterLimit, prevIsLine, currIsLine, dot, ccw) ==
    LET angleType == Dot2AngleType(dot)
        swapped == ccw /\ angleType # "Nearly180"
        upright == dot = 0 /\ invMiterLimit <= OneOverSqrt2
        blunt == \/ angleType = "Nearly180"
                 \/ (~upright /\ SinHalfAngle(dot) < invMiterLimit)
        mid == IF upright
               THEN UnitScale(PtAdd(before, after), radius)
               ELSE SetLength(MiterDir(angleType, ccw, before, after),
                              (radius * UnitOne) \div SinHalfAngle(dot))
    IN  JoinedPaths(swapped,
                    MiterTip(IF swapped THEN inner ELSE outer, blunt, prevIsLine,
                             currIsLine, PtAdd(pivot, mid),
                             PtAdd(pivot, UnitScale(after, radius))),
                    HandleInnerJoin(IF swapped THEN outer ELSE inner, pivot,
                                    UnitScale(after, radius)))

\* MiterJoiner
MiterJoiner(outer, inner, beforeUnitNormal, pivot, afterUnitNormal, radius, invMiterLimit, prevIsLine, currIsLine) ==
    LET dot == UnitDot(beforeUnitNormal, afterUnitNormal)
        ccw == ~is_clockwise(beforeUnitNormal, afterUnitNormal)
        swapped == ccw /\ Dot2AngleType(dot) # "Nearly180"
    IN  IF Dot2AngleType(dot) = "NearlyLine"
        THEN [outer |-> outer, inner |-> inner]
        ELSE MiterJoin(outer, inner,
                       IF swapped THEN PtNeg(beforeUnitNormal) ELSE beforeUnitNormal,
                       pivot,
                       IF swapped THEN PtNeg(afterUnitNormal) ELSE afterUnitNormal,
                       radius, invMiterLimit, prevIsLine, currIsLine, dot, ccw)

\* the join procedure JoinFactory selected, applied
Joiner(join, outer, inner, beforeUnitNormal, pivot, afterUnitNormal, radius, invMiterLimit, prevIsLine, currIsLine) ==
    CASE join = "Bevel" ->
           BluntJoiner(outer, inner, beforeUnitNormal, pivot, afterUnitNormal, radius)
      [] join = "Round" ->
           RoundJoiner(outer, inner, beforeUnitNormal, pivot, afterUnitNormal, radius)
      [] join = "Miter" ->
           MiterJoiner(outer, inner, beforeUnitNormal, pivot, afterUnitNormal, radius,
                       invMiterLimit, prevIsLine, currIsLine)

\* ------------------------------------------------------------------------
\* State
\* ------------------------------------------------------------------------
VARIABLES
    \* the call of StrokeInkWithPaint: its arguments (dst0 is what dst held
    \* on entry), the position in its code, the loop variables of strokeInk
    \* and the value returned
    points, point_count, paint, dst, dst0, pc, i, lastSegment, ret,
    \* InkStroker: the configuration the constructor sets
    fRadius, fInvMiterLimit, fResScale, fCapper, fJoiner, fCanIgnoreCenter,
    \* InkStroker: the running state of the contour
    fSegmentCount, fFirstPt, fPrevPt, fFirstNormal, fPrevNormal,
    fFirstUnitNormal, fPrevUnitNormal, fFirstOuterPt,
    fFirstOuterPtIndexInContour, fPrevIsLine, fJoinCompleted,
    fInner, fOuter, fCusper,
    \* history: whether an InkStroker was constructed, the stroker operations
    \* performed so far, and the last one with what it found and did
    built, trace, last,
    \* the call of StrokePathWithOpts: its arguments (srcPath is src; aliased when src and
    \* dst are the same path object), who called it (pNull: the binding was
    \* handed a null path), what applyToPath returned, and the invocations
    \* of the general path stroker
    srcPath, opts, pathResScale, caller, aliased, pNull, applied, strokes

callVars == <<points, point_count, paint, dst0, pc, i, lastSegment, ret>>
cfgVars == <<fRadius, fInvMiterLimit, fResScale, fCapper, fJoiner, fCanIgnoreCenter>>
normalVars == <<fFirstNormal, fPrevNormal, fFirstUnitNormal, fPrevUnitNormal,
                fFirstOuterPt>>
runVars == <<fSegmentCount, fFirstPt, fPrevPt, normalVars,
             fFirstOuterPtIndexInContour, fPrevIsLine, fJoinCompleted,
             fInner, fOuter, fCusper>>
pathVars == <<srcPath, opts, pathResScale, caller, aliased, pNull, applied, strokes>>
vars == <<callVars, dst, cfgVars, runVars, built, trace, last, pathVars>>

\* ------------------------------------------------------------------------
\* StylusPoint
\* ------------------------------------------------------------------------
StylusPoint(x, y, p) == [point |-> Pt(x, y), pressure |-> p]

\* an operator!= that tells the pressures apart too
StylusNE_withPressure(a, b) == PointNE(a.point, b.point) \/ a.pressure # b.pressure

\* operator!= of StylusPoint
StylusNE(a, b) == PointNE(a.point, b.point)

\* operator== of StylusPoint
StylusEQ(a, b) == ~PointNE(a.point, b.point)

\* ------------------------------------------------------------------------
\* InkStroker
\* ------------------------------------------------------------------------
\* a constructor that keeps the miter join at a miter limit of exactly one
CtorJoin_belowOne(join, miterLimit) ==
    IF join = "Miter" /\ miterLimit < 1 THEN "Bevel" ELSE join

\* the join the constructor keeps
CtorJoin(join, miterLimit) ==
    IF join = "Miter" /\ miterLimit <= 1 THEN "Bevel" ELSE join

\* fInvMiterLimit as the constructor leaves it (in units of 1/UnitOne)
CtorInvMiterLimit(join, miterLimit) ==
    IF join = "Miter" /\ miterLimit > 1 THEN UnitOne \div miterLimit ELSE 0

\* InkStroker::InkStroker: the object the constructor leaves.  fFirstPt and
\* fPrevPt are default-constructed StylusPoints; the normals and
\* fJoinCompleted are not initialised: no operation reads a normal before
\* preJoinTo and postJoinTo have written it, and undef is the indeterminate
\* value of fJoinCompleted.
InkStroker_ctor(radius, miterLimit, cap, join, resScale, canIgnoreCenter, undef) ==
    [fRadius |-> radius,
     fResScale |-> resScale,
     fCanIgnoreCenter |-> canIgnoreCenter,
     fInvMiterLimit |-> CtorInvMiterLimit(join, miterLimit),
     fCapper |-> CapFactory(cap),
     fJoiner |-> JoinFactory(CtorJoin(join, miterLimit)),
     fSegmentCount |-> -1,
     fFirstOuterPtIndexInContour |-> 0,
     fPrevIsLine |-> FALSE,
     fJoinCompleted |-> undef,
     fFirstPt |-> StylusPoint(0, 0, 1),
     fPrevPt |-> StylusPoint(0, 0, 1),
     fInner |-> EmptyPath,
     fOuter |-> EmptyPath,
     fCusper |-> EmptyPath]

\* the stroker's fields, but for its two working paths, are those of c
StrokerFieldsAre(c) ==
    /\ fRadius = c.fRadius
    /\ fResScale = c.fResScale
    /\ fCanIgnoreCenter = c.fCanIgnoreCenter
    /\ fInvMiterLimit = c.fInvMiterLimit
    /\ fCapper = c.fCapper
    /\ fJoiner = c.fJoiner
    /\ fSegmentCount = c.fSegmentCount
    /\ fFirstOuterPtIndexInContour = c.fFirstOuterPtIndexInContour
    /\ fPrevIsLine = c.fPrevIsLine
    /\ fJoinCompleted = c.fJoinCompleted
    /\ fFirstPt = c.fFirstPt
    /\ fPrevPt = c.fPrevPt
    /\ fCusper = c.fCusper
    /\ fFirstNormal = ZeroPt
    /\ fPrevNormal = ZeroPt
    /\ fFirstUnitNormal = ZeroPt
    /\ fPrevUnitNormal = ZeroPt
    /\ fFirstOuterPt = ZeroPt

\* the stroker's fields are those of the object c
StrokerIs(c) ==
    /\ StrokerFieldsAre(c)
    /\ fInner = c.fInner
    /\ fOuter = c.fOuter

\* the stroker's fields become those of the object c
StrokerBecomes(c) ==
    /\ fRadius' = c.fRadius
    /\ fResScale' = c.fResScale
    /\ fCanIgnoreCenter' = c.fCanIgnoreCenter
    /\ fInvMiterLimit' = c.fInvMiterLimit
    /\ fCapper' = c.fCapper
    /\ fJoiner' = c.fJoiner
    /\ fSegmentCount' = c.fSegmentCount
    /\ fFirstOuterPtIndexInContour' = c.fFirstOuterPtIndexInContour
    /\ fPrevIsLine' = c.fPrevIsLine
    /\ fJoinCompleted' = c.fJoinCompleted
    /\ fFirstPt' = c.fFirstPt
    /\ fPrevPt' = c.fPrevPt
    /\ fInner' = c.fInner
    /\ fOuter' = c.fOuter
    /\ fCusper' = c.fCusper
    /\ UNCHANGED normalVars

\* SkPath::addPath in append mode
SkPath_addPath(p, q) ==
    [verbs |-> p.verbs \o q.verbs, pts |-> p.pts \o q.pts, ws |-> p.ws \o q.ws]

\* a finishContour that also finishes a contour of a lone moveTo
FinishGuard_moveOnly == fSegmentCount >= 0

\* finishContour: the contour has at least one segment
FinishGuard == fSegmentCount > 0

\* an ignore-center test with the two bounds exchanged
IgnoreCenterSwap_exchanged(inner, outer) ==
    RectContains(SkPath_getBounds(outer), SkPath_getBounds(inner))

\* finishContour, ignore-center: the inner path is kept instead of the outer
IgnoreCenterSwap(inner, outer) ==
    RectContains(SkPath_getBounds(inner), SkPath_getBounds(outer))

\* an invocation of the join procedure fJoiner, by its arguments
JoinCall(beforeUnitNormal, pivot, afterUnitNormal, radius) ==
    [proc |-> "join", pivot |-> pivot, before |-> beforeUnitNormal,
     after |-> afterUnitNormal, radius |-> radius]

\* an invocation of the cap procedure fCapper, by its arguments
CapCall(pivot, normal, stop) ==
    [proc |-> "cap", pivot |-> pivot, normal |-> normal, stop |-> stop]

\* the radius the closing join is made with
CloseJoinRadius == fRadius

\* the paths after the closing join of finishContour
CloseJoin(currIsLine) ==
    Joiner(fJoiner, fOuter, fInner, fPrevUnitNormal, fPrevPt.point,
           fFirstUnitNormal, CloseJoinRadius, fInvMiterLimit, fPrevIsLine,
           currIsLine)

\* a close branch that does not close the inner contour it appends
AfterCloseJoin_innerOpen(j) ==
    IF fCanIgnoreCenter
    THEN (IF RectContains(SkPath_getBounds(j.inner),
                          SkPath_getBounds(SkPath_close(j.outer)))
          THEN j.inner ELSE SkPath_close(j.outer))
    ELSE reversePathTo(SkPath_moveTo(SkPath_close(j.outer),
                                     SkPath_getLastPt(j.inner)),
                       j.inner)

\* finishContour, close: fOuter at the end of the branch, from the two paths
\* j the closing join left
AfterCloseJoin(j) ==
    IF fCanIgnoreCenter
    THEN (IF IgnoreCenterSwap(j.inner, SkPath_close(j.outer))
          THEN j.inner ELSE SkPath_close(j.outer))
    ELSE SkPath_close(
             reversePathTo(SkPath_moveTo(SkPath_close(j.outer),
                                         SkPath_getLastPt(j.inner)),
                           j.inner))

\* finishContour, close
FinishClosed(currIsLine) == AfterCloseJoin(CloseJoin(currIsLine))

\* what close() did, for the record of the last operation: the two paths
\* after the closing join and fOuter.close(), and whether they were swapped
CloseRecord(j) ==
    IF FinishGuard
    THEN [swap |-> fCanIgnoreCenter
                       /\ IgnoreCenterSwap(j.inner, SkPath_close(j.outer)),
          closedOuter |-> SkPath_close(j.outer),
          joinedInner |-> j.inner]
    ELSE [swap |-> FALSE, closedOuter |-> EmptyPath, joinedInner |-> EmptyPath]

\* a finishContour that appends the inner path of an open contour as a
\* contour of its own, as the close branch does
FinishOpen_innerOwnContour(currIsLine) ==
    SkPath_close(reversePathTo(SkPath_moveTo(SkPath_close(fOuter),
                                             SkPath_getLastPt(fInner)),
                               fInner))

\* a finishContour that caps the start before it appends the inner path
FinishOpen_startCapFirst(currIsLine) ==
    LET pt == SkPath_getLastPt(fInner)
        capEnd == Capper(fCapper, fOuter, fPrevPt.point, fPrevNormal, pt,
                         currIsLine)
        capStart == Capper(fCapper, capEnd, fFirstPt.point, PtNeg(fFirstNormal),
                           fFirstOuterPt, fPrevIsLine)
    IN  SkPath_close(reversePathTo(capStart, fInner))

\* finishContour, !close: the end cap, the inner path reversed, the start cap
FinishOpen(currIsLine) ==
    LET pt == SkPath_getLastPt(fInner)
        capEnd == Capper(fCapper, fOuter, fPrevPt.point, fPrevNormal, pt,
                         currIsLine)
        rev == reversePathTo(capEnd, fInner)
        capStart == Capper(fCapper, rev, fFirstPt.point, PtNeg(fFirstNormal),
                           fFirstOuterPt, fPrevIsLine)
    IN  SkPath_close(capStart)

\* a finishContour that leaves fInner as it is
RewoundInner_kept == fInner

\* fInner.rewind()
RewoundInner == EmptyPath

\* a finishContour that caps the contour whether it is closed or not
FinishCalls_capsAlways(isClose) ==
    IF ~FinishGuard THEN <<>>
    ELSE <<CapCall(fPrevPt.point, fPrevNormal, SkPath_getLastPt(fInner)),
           CapCall(fFirstPt.point, PtNeg(fFirstNormal), fFirstOuterPt)>>

\* finishContour: the cap and join procedures it invokes, in order
FinishCalls(isClose) ==
    IF ~FinishGuard THEN <<>>
    ELSE IF isClose
    THEN <<JoinCall(fPrevUnitNormal, fPrevPt.point, fFirstUnitNormal,
                    CloseJoinRadius)>>
    ELSE <<CapCall(fPrevPt.point, fPrevNormal, SkPath_getLastPt(fInner)),
           CapCall(fFirstPt.point, PtNeg(fFirstNormal), fFirstOuterPt)>>

\* finishContour: fOuter.addPath(fCusper)
WithCusper(o) ==
    IF ~SkPath_isEmpty(fCusper) THEN SkPath_addPath(o, fCusper) ELSE o

\* finishContour: what it leaves, given the fOuter it leaves
Finished(outer) ==
    [outer |-> outer,
     inner |-> RewoundInner,
     cusper |-> IF FinishGuard THEN EmptyPath ELSE fCusper,
     index |-> SkPath_countPoints(outer)]

\* InkStroker::finishContour: the paths it leaves
finishContour(isClose, currIsLine) ==
    Finished(IF ~FinishGuard THEN fOuter
             ELSE WithCusper(IF isClose THEN FinishClosed(currIsLine)
                             ELSE FinishOpen(currIsLine)))

\* preJoinTo: the normal and unit normal of the segment to currPt; without a
\* direction they are the upright ones
PreJoinNormals(currPt, r) ==
    LET n == set_normal_unitnormal(fPrevPt.point, currPt.point, fResScale, r)
    IN  [ok |-> n.ok,
         normal |-> IF n.ok THEN n.normal ELSE Pt(r, 0),
         unitNormal |-> IF n.ok THEN n.unitNormal ELSE Pt(UnitOne, 0)]

\* a preJoinTo that starts the outer path only
PreJoinFirst_outerOnly(n, currIsLine) ==
    [ok |-> TRUE, normal |-> n.normal, unitNormal |-> n.unitNormal,
     outer |-> SkPath_moveTo(fOuter, PtAdd(fPrevPt.point, n.normal)),
     inner |-> fInner,
     firstNormal |-> n.normal, firstUnitNormal |-> n.unitNormal,
     firstOuterPt |-> PtAdd(fPrevPt.point, n.normal), prevIsLine |-> currIsLine,
     procs |-> <<>>]

\* preJoinTo: the first segment of a contour starts the two paths
PreJoinFirst(n, currIsLine) ==
    [ok |-> TRUE, normal |-> n.normal, unitNormal |-> n.unitNormal,
     outer |-> SkPath_moveTo(fOuter, PtAdd(fPrevPt.point, n.normal)),
     inner |-> SkPath_moveTo(fInner, PtSub(fPrevPt.point, n.normal)),
     firstNormal |-> n.normal, firstUnitNormal |-> n.unitNormal,
     firstOuterPt |-> PtAdd(fPrevPt.point, n.normal), prevIsLine |-> currIsLine,
     procs |-> <<>>]

\* preJoinTo: a later segment is joined to the previous one; j holds the two
\* paths the join procedure left
PreJoinNext(n, j, r, currIsLine) ==
    [ok |-> TRUE, normal |-> n.normal, unitNormal |-> n.unitNormal,
     outer |-> j.outer, inner |-> j.inner,
     firstNormal |-> fFirstNormal, firstUnitNormal |-> fFirstUnitNormal,
     firstOuterPt |-> fFirstOuterPt, prevIsLine |-> currIsLine,
     procs |-> <<JoinCall(fPrevUnitNormal, fPrevPt.point, n.unitNormal, r)>>]

\* preJoinTo, once the normals n are set
PreJoinWith(n, r, currIsLine) ==
    IF ~n.ok /\ CapFactory("Butt") = fCapper
    THEN [ok |-> FALSE, normal |-> n.normal, unitNormal |-> n.unitNormal,
          outer |-> fOuter, inner |-> fInner,
          firstNormal |-> fFirstNormal, firstUnitNormal |-> fFirstUnitNormal,
          firstOuterPt |-> fFirstOuterPt, prevIsLine |-> fPrevIsLine,
          procs |-> <<>>]
    ELSE IF fSegmentCount = 0
    THEN PreJoinFirst(n, currIsLine)
    ELSE PreJoinNext(n,
                     Joiner(fJoiner, fOuter, fInner, fPrevUnitNormal,
                            fPrevPt.point, n.unitNormal, r, fInvMiterLimit,
                            fPrevIsLine, currIsLine),
                     r, currIsLine)

\* InkStroker::preJoinTo
preJoinTo(currPt, currIsLine) ==
    PreJoinWith(PreJoinNormals(currPt, fRadius * fPrevPt.pressure),
                fRadius * fPrevPt.pressure, currIsLine)

\* a filter that forgets that a segment was accepted before
TeenyDrop_notJoined(currPt) ==
    LET teenyLine == EqualsWithinTolerance(fPrevPt.point, currPt.point)
    IN  \/ (CapFactory("Butt") = fCapper /\ teenyLine)
        \/ (teenyLine /\ StylusNE(fPrevPt, currPt))

\* a filter that lets every teeny segment of a fresh contour through
TeenyDrop_joinedOnly(currPt) ==
    LET teenyLine == EqualsWithinTolerance(fPrevPt.point, currPt.point)
    IN  \/ (CapFactory("Butt") = fCapper /\ teenyLine)
        \/ (teenyLine /\ fJoinCompleted)

\* InkStroker::lineTo: the degeneracy filter drops the segment
TeenyDrop(currPt) ==
    LET teenyLine == EqualsWithinTolerance(fPrevPt.point, currPt.point)
    IN  \/ (CapFactory("Butt") = fCapper /\ teenyLine)
        \/ (teenyLine /\ (fJoinCompleted \/ StylusNE(fPrevPt, currPt)))

\* InkStroker::lineTo: the segment is accepted
LineAccepted(currPt) == ~TeenyDrop(currPt) /\ preJoinTo(currPt, TRUE).ok

\* the number of invocations of the join procedure among procs
JoinsIn(procs) == Cardinality({k \in 1..Len(procs) : procs[k].proc = "join"})

\* the invocations of the join procedure for the contour an operation finds
\* open, those of the operation (procs) included
ContourJoins(procs) ==
    (IF fSegmentCount <= 0 THEN 0 ELSE last.joins) + JoinsIn(procs)

\* fOuter as it was when the contour an operation finds open got its first
\* segment
ContourBase == IF fSegmentCount <= 0 THEN fOuter ELSE last.base

\* the record of an operation other than close()
OpRecord(op, pt, accepted, procs) ==
    [op |-> op, seg |-> fSegmentCount, pt |-> pt, accepted |-> accepted,
     swap |-> FALSE, closedOuter |-> EmptyPath, joinedInner |-> EmptyPath,
     pre |-> runVars, procs |-> procs, joins |-> ContourJoins(procs),
     base |-> ContourBase, dstPre |-> dst]

\* the fields finishContour writes, but for fSegmentCount
FinishBecomes(f) ==
    /\ fOuter' = f.outer
    /\ fInner' = f.inner
    /\ fCusper' = f.cusper
    /\ fFirstOuterPtIndexInContour' = f.index

\* InkStroker::moveTo
InkStroker_moveTo(pt) ==
    /\ IF fSegmentCount > 0
       THEN FinishBecomes(finishContour(FALSE, FALSE))
       ELSE UNCHANGED <<fOuter, fInner, fCusper, fFirstOuterPtIndexInContour>>
    /\ fSegmentCount' = 0
    /\ fFirstPt' = pt
    /\ fPrevPt' = pt
    /\ fJoinCompleted' = FALSE
    /\ UNCHANGED <<normalVars, fPrevIsLine>>
    /\ UNCHANGED dst
    /\ trace' = Append(trace, "moveTo")
    /\ last' = OpRecord("moveTo", pt, FALSE,
                        IF fSegmentCount > 0 THEN FinishCalls(FALSE) ELSE <<>>)

\* a postJoinTo that does not count the segment
PostJoinCount_same == fSegmentCount

\* postJoinTo: fSegmentCount += 1
PostJoinCount == fSegmentCount + 1

\* lineTo after a preJoinTo that left pj: line_to and postJoinTo
LineJoined(currPt, pj, curNormal) ==
    /\ fFirstNormal' = pj.firstNormal
    /\ fFirstUnitNormal' = pj.firstUnitNormal
    /\ fFirstOuterPt' = pj.firstOuterPt
    /\ fPrevIsLine' = pj.prevIsLine
    /\ fOuter' = SkPath_lineTo(pj.outer, PtAdd(currPt.point, curNormal))
    /\ fInner' = SkPath_lineTo(pj.inner, PtSub(currPt.point, curNormal))
    /\ fJoinCompleted' = TRUE
    /\ fPrevPt' = currPt
    /\ fPrevUnitNormal' = pj.unitNormal
    /\ fPrevNormal' = curNormal
    /\ fSegmentCount' = PostJoinCount
    /\ UNCHANGED <<fFirstPt, fFirstOuterPtIndexInContour, fCusper>>

\* a normal that leaves the pressure of the sample out
CurNormal_noPressure(unitNormal, currPt) == UnitScale(unitNormal, fRadius)

\* lineTo: unitNormal.scale(fRadius * currPt.pressure, &curNormal)
CurNormal(unitNormal, currPt) == UnitScale(unitNormal, fRadius * currPt.pressure)

\* a lineTo whose preJoinTo notes the kind of segment before it gives up
LineWith_abortSetsPrevIsLine(currPt, pj) ==
    /\ IF ~pj.ok
       THEN /\ fPrevIsLine' = TRUE
            /\ UNCHANGED <<fSegmentCount, fFirstPt, fPrevPt, normalVars,
                           fFirstOuterPtIndexInContour, fJoinCompleted,
                           fInner, fOuter, fCusper>>
       ELSE LineJoined(currPt, pj,
                       CurNormal(pj.unitNormal, currPt))
    /\ last' = OpRecord("lineTo", currPt, pj.ok, pj.procs)

\* lineTo past the degeneracy filter, with what preJoinTo returned
LineWith(currPt, pj) ==
    /\ IF ~pj.ok
       THEN UNCHANGED runVars
       ELSE LineJoined(currPt, pj,
                       CurNormal(pj.unitNormal, currPt))
    /\ last' = OpRecord("lineTo", currPt, pj.ok, pj.procs)

\* InkStroker::lineTo with line_to and postJoinTo
InkStroker_lineTo(currPt) ==
    /\ IF TeenyDrop(currPt)
       THEN /\ UNCHANGED runVars
            /\ last' = OpRecord("lineTo", currPt, FALSE, <<>>)
       ELSE LineWith(currPt, preJoinTo(currPt, TRUE))
    /\ trace' = Append(trace, "lineTo")

\* what finishContour leaves behind in close() and done()
FinishRest ==
    /\ fSegmentCount' = -1
    /\ UNCHANGED <<fFirstPt, fPrevPt, normalVars, fPrevIsLine, fJoinCompleted>>

\* the record of a close()
CloseLast(isLine, c) ==
    [op |-> "close", seg |-> fSegmentCount, pt |-> fPrevPt, accepted |-> isLine,
     swap |-> c.swap, closedOuter |-> c.closedOuter,
     joinedInner |-> c.joinedInner,
     pre |-> runVars, procs |-> FinishCalls(TRUE),
     joins |-> ContourJoins(FinishCalls(TRUE)), base |-> ContourBase,
     dstPre |-> dst]

\* InkStroker::close
InkStroker_close(isLine) ==
    /\ FinishBecomes(finishContour(TRUE, isLine))
    /\ FinishRest
    /\ UNCHANGED dst
    /\ trace' = Append(trace, "close")
    /\ last' = CloseLast(isLine, CloseRecord(CloseJoin(isLine)))

\* a done() that copies the outline into dst
DoneSwap_copy(f) ==
    /\ dst' = f.outer
    /\ fOuter' = f.outer
    /\ fInner' = f.inner
    /\ fCusper' = f.cusper
    /\ fFirstOuterPtIndexInContour' = f.index

\* done(): dst->swap(fOuter) after a finishContour that left f
DoneSwap(f) ==
    /\ dst' = f.outer
    /\ fOuter' = dst
    /\ fInner' = f.inner
    /\ fCusper' = f.cusper
    /\ fFirstOuterPtIndexInContour' = f.index

\* InkStroker::done: finishContour, then dst->swap(fOuter)
InkStroker_done(isLine) ==
    /\ DoneSwap(finishContour(FALSE, isLine))
    /\ FinishRest
    /\ trace' = Append(trace, "done")
    /\ last' = OpRecord("done", fPrevPt, isLine, FinishCalls(FALSE))

\* ------------------------------------------------------------------------
\* Inputs
\* ------------------------------------------------------------------------
\* stylus samples: three corners of a 3-4-5 triangle, a sample at the first
\* corner with another pressure, a sample within the tolerance of the first
\* corner but not equal to it, and a sample with a non-finite coordinate
StylusInputs ==
    {StylusPoint(0, 0, 1),
     StylusPoint(3, 0, 2),
     StylusPoint(3, 4, 1),
     StylusPoint(0, 0, 2),
     [point |-> PtE(0, 0, 1), pressure |-> 1],
     [point |-> NonFinitePt, pressure |-> 1]}

\* stroke widths of a paint: fill, hairline and a thick stroke
Widths == {-10, 0, 10}

\* the stroke settings of a paint (the miter limit matters to a miter join)
Paints ==
    {[width |-> w, miter |-> jm[2], cap |-> c, join |-> jm[1]] :
        w \in Widths, c \in Caps,
        jm \in {<<"Miter", 4>>, <<"Miter", 1>>, <<"Round", 4>>, <<"Bevel", 4>>}}

\* what a destination path may hold before a call: nothing, a finite
\* contour, a contour with a non-finite point
FinitePath ==
    SkPath_close(SkPath_lineTo(SkPath_moveTo(EmptyPath, Pt(1, 1)), Pt(2, 1)))
NonFinitePath == SkPath_lineTo(SkPath_moveTo(EmptyPath, Pt(1, 1)), NonFinitePt)
DstInits == {EmptyPath, FinitePath, NonFinitePath}

\* the sequences of n stylus samples
RECURSIVE StylusSeqs(_)
StylusSeqs(n) ==
    IF n <= 0 THEN {<<>>}
    ELSE {Append(q, sp) : q \in StylusSeqs(n - 1), sp \in StylusInputs}

\* an InkStroker that was not constructed yet
NoStroker == InkStroker_ctor(0, 0, "Butt", "Bevel", 1, FALSE, FALSE)
NoOp ==
    [op |-> "none", seg |-> -1, pt |-> StylusPoint(0, 0, 1), accepted |-> FALSE,
     swap |-> FALSE, closedOuter |-> EmptyPath, joinedInner |-> EmptyPath,
     pre |-> <<>>, procs |-> <<>>, joins |-> 0, base |-> EmptyPath,
     dstPre |-> EmptyPath]

\* no call of StrokePathWithOpts is under way
NoOpts == [width |-> 0, miter_limit |-> 0, res_scale |-> 1, join |-> "Bevel", cap |-> "Butt"]
PathIdle ==
    /\ srcPath = EmptyPath
    /\ opts = NoOpts
    /\ pathResScale = 1
    /\ caller = "none"
    /\ aliased = FALSE
    /\ pNull = FALSE
    /\ applied = "none"
    /\ strokes = <<>>

\* ------------------------------------------------------------------------
\* StrokeInkWithPaint and InkStroke::strokeInk
\* ------------------------------------------------------------------------
Init ==
    /\ point_count \in -1..MaxPoints
    /\ points \in StylusSeqs(point_count)
    /\ paint \in Paints
    /\ dst \in DstInits
    /\ dst0 = dst
    /\ pc = "call"
    /\ i = 0
    /\ lastSegment = "Move"
    /\ ret = "none"
    /\ StrokerIs(NoStroker)
    /\ built = FALSE
    /\ trace = <<>>
    /\ last = NoOp
    /\ PathIdle

\* SkScalarHalf(fWidth)
StrokeRadius == paint.width \div 2

\* a radius check that lets a zero radius through
RadiusRejected_negativeOnly == StrokeRadius < 0

\* strokeInk does nothing for this radius
RadiusRejected == StrokeRadius <= 0

\* a point-count check that lets a count of zero through
CountRejected_negativeOnly == point_count < 0

\* StrokeInkWithPaint rejects this point count
CountRejected == point_count <= 0

\* StrokeInkWithPaint up to the loop of strokeInk: the point-count check,
\* InkStroke(paint), the radius check and the construction of the stroker
StrokeInkWithPaint_Enter ==
    /\ pc = "call"
    /\ IF CountRejected
       THEN /\ dst' = EmptyPath
            /\ ret' = "false"
            /\ pc' = "returned"
            /\ UNCHANGED <<cfgVars, runVars, built, i, lastSegment>>
       ELSE IF RadiusRejected
       THEN /\ pc' = "check"
            /\ UNCHANGED <<dst, ret, cfgVars, runVars, built, i, lastSegment>>
       ELSE /\ \E undef \in BOOLEAN :
                  StrokerBecomes(InkStroker_ctor(StrokeRadius, paint.miter,
                                                 paint.cap, paint.join, 1,
                                                 FALSE, undef))
            /\ built' = TRUE
            /\ pc' = "loop"
            /\ i' = 0
            /\ lastSegment' = "Move"
            /\ UNCHANGED <<dst, ret>>
    /\ UNCHANGED <<pathVars, points, point_count, paint, dst0, trace, last>>

\* a loop that takes no sample for the first
IsFirstPoint_never == FALSE

\* strokeInk: `if (i == 0)`
IsFirstPoint == i = 0

\* one turn of the loop of strokeInk
strokeInk_Step ==
    /\ pc = "loop"
    /\ i < point_count
    /\ IF IsFirstPoint
       THEN InkStroker_moveTo(points[i + 1]) /\ UNCHANGED lastSegment
       ELSE InkStroker_lineTo(points[i + 1]) /\ lastSegment' = "Line"
    /\ i' = i + 1
    /\ UNCHANGED <<pathVars, points, point_count, paint, dst0, pc, ret, dst, cfgVars, built>>

\* the end of strokeInk: stroker.done(dst, lastSegment == kLine_Verb)
strokeInk_Done ==
    /\ pc = "loop"
    /\ ~(i < point_count)
    /\ InkStroker_done(lastSegment = "Line")
    /\ pc' = "check"
    /\ UNCHANGED <<pathVars, points, point_count, paint, dst0, i, lastSegment, ret, cfgVars,
                   built>>

\* StrokeInkWithPaint without its finiteness check
DstRejected_never == FALSE

\* StrokeInkWithPaint rejects what strokeInk left in dst
DstRejected == ~SkPath_isFinite(dst)

\* the end of StrokeInkWithPaint: the finiteness check and the return
StrokeInkWithPaint_Check ==
    /\ pc = "check"
    /\ IF DstRejected
       THEN dst' = EmptyPath /\ ret' = "false"
       ELSE ret' = "true" /\ UNCHANGED dst
    /\ pc' = "returned"
    /\ UNCHANGED <<pathVars, points, point_count, paint, dst0, i, lastSegment, cfgVars,
                   runVars, built, trace, last>>

Next ==
    \/ StrokeInkWithPaint_Enter
    \/ strokeInk_Step
    \/ strokeInk_Done
    \/ StrokeInkWithPaint_Check

Spec == Init /\ [][Next]_vars

\* ------------------------------------------------------------------------
\* An InkStroker driven through its public operations
\* ------------------------------------------------------------------------
\* the radius of the stroker (half of the thick stroke width)
StrokerRadii == {5}

\* the samples handed to the stroker's operations
StrokerInputs ==
    {StylusPoint(0, 0, 1),
     StylusPoint(3, 0, 2),
     StylusPoint(3, 4, 1),
     [point |-> PtE(0, 0, 1), pressure |-> 1],
     [point |-> NonFinitePt, pressure |-> 1]}

InitStroker ==
    /\ \E r \in StrokerRadii, c \in Caps, ic \in BOOLEAN, undef \in BOOLEAN,
          jm \in {<<"Miter", 4>>, <<"Miter", 1>>, <<"Round", 4>>, <<"Bevel", 4>>} :
          StrokerIs(InkStroker_ctor(r, jm[2], c, jm[1], 1, ic, undef))
    /\ built = TRUE
    /\ dst = FinitePath
    /\ dst0 = dst
    /\ points = <<>>
    /\ point_count = 0
    /\ paint = [width |-> 0, miter |-> 0, cap |-> "Butt", join |-> "Bevel"]
    /\ pc = "stroker"
    /\ i = 0
    /\ lastSegment = "Move"
    /\ ret = "none"
    /\ trace = <<>>
    /\ last = NoOp
    /\ PathIdle

MoveTo ==
    /\ Len(trace) < MaxOps
    /\ \E pt \in StrokerInputs : InkStroker_moveTo(pt)
    /\ UNCHANGED <<pathVars, callVars, dst, cfgVars, built>>

\* preJoinTo asserts fSegmentCount >= 0: lineTo is called on an open contour
LineTo ==
    /\ Len(trace) < MaxOps
    /\ fSegmentCount >= 0
    /\ \E pt \in StrokerInputs : InkStroker_lineTo(pt)
    /\ UNCHANGED <<pathVars, callVars, dst, cfgVars, built>>

Close ==
    /\ Len(trace) < MaxOps
    /\ \E isLine \in BOOLEAN : InkStroker_close(isLine)
    /\ UNCHANGED <<pathVars, callVars, cfgVars, built>>

Done ==
    /\ Len(trace) < MaxOps
    /\ \E isLine \in BOOLEAN : InkStroker_done(isLine)
    /\ UNCHANGED <<pathVars, callVars, cfgVars, built>>

NextStroker ==
    \/ MoveTo
    \/ LineTo
    \/ Close
    \/ Done

SpecStroker == InitStroker /\ [][NextStroker]_vars

\* ------------------------------------------------------------------------
\* A stroke of several contours: moveTo, lineTo and close on one stroker
\* ------------------------------------------------------------------------
\* the number of operations of a stroke of several contours
MaxContourOps == 6

\* the finite samples of a stroke of several contours
ContourInputs ==
    {StylusPoint(0, 0, 1), StylusPoint(3, 0, 2), StylusPoint(3, 4, 1)}

InitContours ==
    /\ \E ic \in BOOLEAN, jm \in {<<"Round", 4>>, <<"Bevel", 4>>} :
          StrokerIs(InkStroker_ctor(5, jm[2], "Butt", jm[1], 1, ic, FALSE))
    /\ built = TRUE
    /\ dst = EmptyPath
    /\ dst0 = dst
    /\ points = <<>>
    /\ point_count = 0
    /\ paint = [width |-> 0, miter |-> 0, cap |-> "Butt", join |-> "Bevel"]
    /\ pc = "stroker"
    /\ i = 0
    /\ lastSegment = "Move"
    /\ ret = "none"
    /\ trace = <<>>
    /\ last = NoOp
    /\ PathIdle

ContourMoveTo ==
    /\ Len(trace) < MaxContourOps
    /\ \E pt \in ContourInputs : InkStroker_moveTo(pt)
    /\ UNCHANGED <<pathVars, callVars, dst, cfgVars, built>>

ContourLineTo ==
    /\ Len(trace) < MaxContourOps
    /\ fSegmentCount >= 0
    /\ \E pt \in ContourInputs : InkStroker_lineTo(pt)
    /\ UNCHANGED <<pathVars, callVars, dst, cfgVars, built>>

ContourClose ==
    /\ Len(trace) < MaxContourOps
    /\ \E isLine \in BOOLEAN : InkStroker_close(isLine)
    /\ UNCHANGED <<pathVars, callVars, cfgVars, built>>

NextContours ==
    \/ ContourMoveTo
    \/ ContourLineTo
    \/ ContourClose

SpecContours == InitContours /\ [][NextContours]_vars

\* ------------------------------------------------------------------------
\* reversePathTo(&fOuter, fInner) on paths of any shape
\* ------------------------------------------------------------------------
\* the largest number of path operations a path of SpecReverse is built by
MaxPathOps == 4

PathPoints == {Pt(1, 0), Pt(1, 1)}

\* the paths one more operation of SkPath makes of p
PathSteps(p) ==
    {SkPath_moveTo(p, a) : a \in PathPoints}
        \cup {SkPath_lineTo(p, a) : a \in PathPoints}
        \cup {SkPath_close(p),
              SkPath_quadTo(p, Pt(2, 0), Pt(2, 1)),
              SkPath_conicTo(p, Pt(3, 0), Pt(3, 1), Root2Over2),
              SkPath_cubicTo(p, Pt(4, 0), Pt(4, 1), Pt(4, 2))}

\* the paths built by at most n operations
RECURSIVE BuiltPaths(_)
BuiltPaths(n) ==
    IF n = 0 THEN {EmptyPath}
    ELSE LET S == BuiltPaths(n - 1)
         IN  S \cup UNION {PathSteps(p) : p \in S}

\* a destination with an open contour
OpenPath == SkPath_lineTo(SkPath_moveTo(EmptyPath, Pt(5, 5)), Pt(6, 5))

InitReverse ==
    /\ fInner \in BuiltPaths(MaxPathOps)
    /\ fOuter \in {EmptyPath, FinitePath, OpenPath}
    /\ StrokerFieldsAre(NoStroker)
    /\ built = FALSE
    /\ dst = fOuter
    /\ dst0 = fOuter
    /\ points = <<>>
    /\ point_count = 0
    /\ paint = [width |-> 0, miter |-> 0, cap |-> "Butt", join |-> "Bevel"]
    /\ pc = "reverse"
    /\ i = 0
    /\ lastSegment = "Move"
    /\ ret = "none"
    /\ trace = <<>>
    /\ last = NoOp
    /\ PathIdle

Reverse ==
    /\ pc = "reverse"
    /\ fOuter' = reversePathTo(fOuter, fInner)
    /\ pc' = "reversed"
    /\ UNCHANGED <<pathVars, points, point_count, paint, dst, dst0, i, lastSegment, ret,
                   cfgVars, fSegmentCount, fFirstPt, fPrevPt, normalVars,
                   fFirstOuterPtIndexInContour, fPrevIsLine, fJoinCompleted,
                   fInner, fCusper, built, trace, last>>

NextReverse == Reverse

SpecReverse == InitReverse /\ [][NextReverse]_vars

\* ------------------------------------------------------------------------
\* StrokePathWithOpts, SkStrokeRecSlim and the bindings that stroke a path
\* ------------------------------------------------------------------------
\* the width that stands for the fill style (-SK_Scalar1)
kStrokeRec_FillStyleWidth == -1

StrokeStyles == {"Fill", "Stroke", "StrokeAndFill", "Hairline"}

\* SkStrokeRecSlim::init
SkStrokeRecSlim_init(o, style, rs) ==
    [fResScale |-> rs,
     fWidth |-> CASE style = "Fill" -> kStrokeRec_FillStyleWidth
                  [] style = "Stroke" -> o.width
                  [] style = "StrokeAndFill" ->
                        IF 0 = o.width THEN kStrokeRec_FillStyleWidth ELSE o.width
                  [] OTHER -> kStrokeRec_FillStyleWidth,
     fStrokeAndFill |-> style = "StrokeAndFill" /\ 0 # o.width,
     fMiterLimit |-> o.miter_limit,
     fCap |-> o.cap,
     fJoin |-> o.join]

\* SkStrokeRecSlim::getStyle
SkStrokeRecSlim_getStyle(rec) ==
    IF rec.fWidth < 0 THEN "Fill"
    ELSE IF 0 = rec.fWidth THEN "Hairline"
    ELSE IF rec.fStrokeAndFill THEN "StrokeAndFill" ELSE "Stroke"

SkStrokeRecSlim_isHairlineStyle(rec) == "Hairline" = SkStrokeRecSlim_getStyle(rec)

\* an applyToPath that turns away the hairline only
ApplyRejects_hairlineOnly(rec) == rec.fWidth = 0

\* applyToPath returns false at once (hairline or fill)
ApplyRejects(rec) == rec.fWidth <= 0

\* the settings applyToPath hands to the general path stroker
StrokerCall(rec) ==
    [cap |-> rec.fCap, join |-> rec.fJoin, miterLimit |-> rec.fMiterLimit,
     width |-> rec.fWidth, doFill |-> rec.fStrokeAndFill,
     resScale |-> rec.fResScale]

\* what SkStroke::strokePath may leave in dst: nothing, an outline, an
\* outline with a non-finite point
StrokedOutline ==
    SkPath_close(SkPath_lineTo(SkPath_lineTo(SkPath_moveTo(EmptyPath, Pt(0, 6)),
                                             Pt(4, 6)), Pt(4, -4)))
StrokeOutcomes == {EmptyPath, StrokedOutline, NonFinitePath}

\* the record StrokePathWithOpts builds: kStroke_Style, the resScale argument
PathRec == SkStrokeRecSlim_init(opts, "Stroke", pathResScale)

\* a write of path d through dst (src is the same object when aliased)
DstBecomes(d) ==
    /\ dst' = d
    /\ srcPath' = IF aliased THEN d ELSE srcPath

\* the resolution scales and stroke options a caller may hand in
ResScales == {-1, 0, 1, 2}
StrokeOptsSet ==
    {[width |-> w, miter_limit |-> 4, res_scale |-> rs, join |-> "Miter", cap |-> c] :
        w \in Widths, rs \in ResScales, c \in {"Butt", "Round"}}
SrcPaths == {EmptyPath, FinitePath, OpenPath, NonFinitePath}

InitPath ==
    /\ dst \in SrcPaths
    /\ dst0 = dst
    /\ srcPath = dst
    /\ opts \in StrokeOptsSet
    /\ pathResScale = 1
    /\ pNull \in BOOLEAN
    /\ caller = "none"
    /\ aliased = FALSE
    /\ applied = "none"
    /\ strokes = <<>>
    /\ pc = "bindings"
    /\ StrokerIs(NoStroker)
    /\ built = FALSE
    /\ points = <<>>
    /\ point_count = 0
    /\ paint = [width |-> 0, miter |-> 0, cap |-> "Butt", join |-> "Bevel"]
    /\ i = 0
    /\ lastSegment = "Move"
    /\ ret = "none"
    /\ trace = <<>>
    /\ last = NoOp

inkVars == <<points, point_count, paint, dst0, i, lastSegment, cfgVars, runVars, built, trace, last>>

\* skpath_stroke(p, opts) of the C bindings: the path is stroked in place,
\* with opts.res_scale as the resolution scale
skpath_stroke ==
    /\ pc = "bindings"
    /\ caller' = "skpath_stroke"
    /\ IF pNull
       THEN /\ ret' = "false"
            /\ pc' = "returned"
            /\ UNCHANGED <<aliased, pathResScale>>
       ELSE /\ aliased' = TRUE
            /\ pathResScale' = opts.res_scale
            /\ pc' = "path_entry"
            /\ UNCHANGED ret
    /\ UNCHANGED <<dst, srcPath, opts, pNull, applied, strokes, inkVars>>

\* the resolution scale ApplyStroke goes on with
ApplyStrokeResScale(rs) == IF rs <= 0 THEN 1 ELSE rs

\* ApplyStroke(path, opts) of the wasm bindings, up to its call of
\* skpathutils::FillPathWithPaint
ApplyStroke ==
    /\ pc = "bindings"
    /\ ~pNull
    /\ caller' = "ApplyStroke"
    /\ opts' = [opts EXCEPT !.res_scale = ApplyStrokeResScale(@)]
    /\ pathResScale' = ApplyStrokeResScale(opts.res_scale)
    /\ aliased' = TRUE
    /\ pc' = "FillPathWithPaint"
    /\ UNCHANGED <<dst, srcPath, pNull, applied, strokes, ret, inkVars>>

\* a call of StrokePathWithOpts(src, opts, dst, cullRect, resScale) by any
\* other user of the library
StrokePathWithOpts_Call ==
    /\ pc = "bindings"
    /\ ~pNull
    /\ caller' = "direct"
    /\ \E s \in SrcPaths, rs \in ResScales, al \in BOOLEAN :
          /\ srcPath' = IF al THEN dst ELSE s
          /\ pathResScale' = rs
          /\ aliased' = al
    /\ pc' = "path_entry"
    /\ UNCHANGED <<dst, opts, pNull, applied, strokes, ret, inkVars>>

\* a StrokePathWithOpts without the check of its source
SrcRejected_never == FALSE

\* StrokePathWithOpts turns its source away
SrcRejected == ~SkPath_isFinite(srcPath)

\* StrokePathWithOpts: the check of src
StrokePathWithOpts_Enter ==
    /\ pc = "path_entry"
    /\ IF SrcRejected
       THEN /\ DstBecomes(EmptyPath)
            /\ ret' = "false"
            /\ pc' = "returned"
       ELSE /\ pc' = "path_apply"
            /\ UNCHANGED <<dst, srcPath, ret>>
    /\ UNCHANGED <<opts, pathResScale, caller, aliased, pNull, applied, strokes, inkVars>>

\* StrokePathWithOpts: rec.applyToPath(dst, *srcPtr)
StrokePathWithOpts_Apply ==
    /\ pc = "path_apply"
    /\ IF ApplyRejects(PathRec)
       THEN /\ applied' = "false"
            /\ UNCHANGED <<dst, srcPath, strokes>>
       ELSE /\ \E out \in StrokeOutcomes : DstBecomes(out)
            /\ strokes' = Append(strokes, StrokerCall(PathRec))
            /\ applied' = "true"
    /\ pc' = "path_finish"
    /\ UNCHANGED <<opts, pathResScale, caller, aliased, pNull, ret, inkVars>>

\* what dst holds after `if (!applyToPath) *dst = *srcPtr`
AfterApply == IF applied = "false" THEN srcPath ELSE dst

\* StrokePathWithOpts: the copy of src when nothing was applied, the
\* finiteness check of dst and the return
StrokePathWithOpts_Finish ==
    /\ pc = "path_finish"
    /\ IF ~SkPath_isFinite(AfterApply)
       THEN DstBecomes(EmptyPath) /\ ret' = "false"
       ELSE /\ DstBecomes(AfterApply)
            /\ ret' = IF SkStrokeRecSlim_isHairlineStyle(PathRec)
                      THEN "false" ELSE "true"
    /\ pc' = "returned"
    /\ UNCHANGED <<opts, pathResScale, caller, aliased, pNull, applied, strokes, inkVars>>

NextPath ==
    \/ skpath_stroke
    \/ ApplyStroke
    \/ StrokePathWithOpts_Call
    \/ StrokePathWithOpts_Enter
    \/ StrokePathWithOpts_Apply
    \/ StrokePathWithOpts_Finish

SpecPath == InitPath /\ [][NextPath]_vars

\* ------------------------------------------------------------------------
\* Properties of StrokeInkWithPaint (checked under Spec)
\* ------------------------------------------------------------------------
Returned == pc = "returned"

\* C1: a call of StrokeInkWithPaint with point_count <= 0 leaves dst reset
\* to the empty path and returns false, whatever the paint and whatever dst
\* held; no stroker is built and no stroker operation is performed.
C1_CountRejected ==
    (Returned /\ point_count <= 0) =>
        /\ dst = EmptyPath
        /\ ret = "false"
        /\ ~built
        /\ trace = <<>>

\* a rejected call that came with a positive width and a filled dst
C1_Witness ==
    /\ Returned
    /\ point_count = 0
    /\ paint.width > 0
    /\ dst0 = NonFinitePath

\* C2: with a radius <= 0 and point_count > 0 StrokeInkWithPaint returns
\* false.  The code returns true whenever dst came in finite.
C2_RadiusRejectedReturnsFalse ==
    (Returned /\ point_count > 0 /\ StrokeRadius <= 0) => ret = "false"

\* C3: with a radius <= 0 strokeInk is a no-op: when it has returned no
\* stroker has been built, no moveTo/lineTo/done has run and dst holds the
\* verbs and points it held before the call.
C3_RadiusNoOp ==
    (pc = "check" /\ StrokeRadius <= 0) =>
        /\ ~built
        /\ trace = <<>>
        /\ dst = dst0

\* strokeInk has returned from a call with points, a zero width and a
\* filled dst
C3_Witness ==
    /\ pc = "check"
    /\ paint.width = 0
    /\ point_count > 1
    /\ dst0 = FinitePath
    /\ dst = FinitePath

\* C4: StrokeInkWithPaint returns true only with a finite dst, and returns
\* false only with an empty dst.
C4_FiniteOrEmpty ==
    Returned =>
        /\ ret \in {"true", "false"}
        /\ (ret = "true" => SkPath_isFinite(dst))
        /\ (ret = "false" => dst = EmptyPath)

\* the stroker ran over the points and what it produced was rejected
C4_Witness ==
    /\ Returned
    /\ ret = "false"
    /\ built
    /\ Len(trace) > 2

\* C5: a single stylus point stroked with round cap, round join and a
\* positive width gives a non-empty closed path.  The code gives the empty
\* path: done() finishes a contour only when it has a segment.
C5_SinglePointDot ==
    (/\ Returned
     /\ point_count = 1
     /\ points[1].point.fin
     /\ paint.cap = "Round"
     /\ paint.join = "Round"
     /\ paint.width > 0) =>
        /\ ~SkPath_isEmpty(dst)
        /\ LastVerb(dst) = "Close"

\* C6: a single stylus point stroked with butt cap and a positive width
\* leaves dst empty.
C6_SinglePointButt ==
    (/\ Returned
     /\ point_count = 1
     /\ paint.cap = "Butt"
     /\ paint.width > 0) =>
        /\ SkPath_isEmpty(dst)
        /\ SkPath_countPoints(dst) = 0

\* such a call, made with a dst that held a path, after moveTo and done
C6_Witness ==
    /\ Returned
    /\ point_count = 1
    /\ paint.cap = "Butt"
    /\ paint.width > 0
    /\ dst0 = FinitePath
    /\ trace = <<"moveTo", "done">>

\* ------------------------------------------------------------------------
\* Properties of the stroker's operations (checked under SpecStroker)
\* ------------------------------------------------------------------------
\* the last operation was close() on a contour with at least one segment
ClosedWithSegments == last.op = "close" /\ last.seg > 0

\* C7 as stated: after close() on a contour with at least one accepted
\* segment the last verb of the outline is Close, in either setting of the
\* ignore-center flag and whatever the bounds.
C7_CloseEndsInClose_Original ==
    ClosedWithSegments => LastVerb(fOuter) = "Close"

\* C7: after close() on a contour with at least one accepted segment the
\* last verb of the outline is Close when ignore-center is off, or is on and
\* the inner path's bounds do not contain the outer's; when they do, the
\* outline is the inner path, which is never closed.
C7_CloseEndsInClose ==
    ClosedWithSegments =>
        IF last.swap
        THEN fCanIgnoreCenter /\ LastVerb(fOuter) # "Close"
        ELSE LastVerb(fOuter) = "Close"

\* close() with ignore-center on kept the outer path
C7_Witness ==
    /\ ClosedWithSegments
    /\ last.seg > 1
    /\ fCanIgnoreCenter
    /\ ~last.swap
    /\ LastVerb(fOuter) = "Close"

\* C8: right after every finalization (close(), done(), or the one moveTo()
\* makes) the inner path has no points and no verbs, whatever the segment
\* count was; the inner path is non-empty only while the segment count is
\* positive.
C8_InnerRewound ==
    /\ last.op \in {"close", "done", "moveTo"} =>
           /\ SkPath_countPoints(fInner) = 0
           /\ SkPath_countVerbs(fInner) = 0
    /\ ~SkPath_isEmpty(fInner) => fSegmentCount > 0

\* moveTo() finalized a contour that had segments
C8_Witness ==
    /\ last.op = "moveTo"
    /\ last.seg > 0
    /\ fInner = EmptyPath

\* C10: with ignore-center on, close() on a contour with at least one
\* segment never appends the inner path to the outer: the outline is
\* exactly one of the two, the inner path when its bounds contain the
\* outer's and the outer path otherwise, with the verbs of that one alone.
C10_IgnoreCenterKeepsOne ==
    (ClosedWithSegments /\ fCanIgnoreCenter) =>
        LET inner == last.joinedInner
            outer == last.closedOuter
            kept == IF RectContains(SkPath_getBounds(inner),
                                    SkPath_getBounds(outer))
                    THEN inner ELSE outer
        IN  /\ fOuter = kept
            /\ SkPath_countVerbs(fOuter) = SkPath_countVerbs(kept)
            /\ SkPath_countVerbs(fOuter)
                   < SkPath_countVerbs(outer) + SkPath_countVerbs(inner)

\* close() with ignore-center on kept the inner path
C10_Witness ==
    /\ ClosedWithSegments
    /\ fCanIgnoreCenter
    /\ last.swap
    /\ ~SkPath_isEmpty(fOuter)

\* ------------------------------------------------------------------------
\* Properties of reversePathTo (checked under SpecReverse)
\* ------------------------------------------------------------------------
Reversed(s) == [j \in 1..Len(s) |-> s[Len(s) + 1 - j]]

\* the index of the last Move verb of a non-empty path
LastMoveVerb(p) ==
    CHOOSE k \in 1..Len(p.verbs) :
        /\ p.verbs[k] = "Move"
        /\ \A m \in (k + 1)..Len(p.verbs) : p.verbs[m] # "Move"

\* the segment verbs of the last contour
LastContourSegments(p) ==
    LET IsSegment(v) == v \notin {"Move", "Close"}
    IN  SelectSeq(SubSeq(p.verbs, LastMoveVerb(p) + 1, Len(p.verbs)), IsSegment)

\* the points of the last contour but the final one
LastContourHead(p) ==
    SubSeq(p.pts, PtsBefore(p.verbs, LastMoveVerb(p)), Len(p.pts) - 1)

\* the conic weights of the last contour
LastContourWeights(p) ==
    LET IsConic(v) == v = "Conic"
        before == Len(SelectSeq(SubSeq(p.verbs, 1, LastMoveVerb(p)), IsConic))
    IN  SubSeq(p.ws, before + 1, Len(p.ws))

\* C9: reversePathTo(dst, src) appends the segments of src's last contour
\* only, reversed: for [Move p0, Line p1, .., Line pn] it appends
\* Line(p(n-1)) .. Line(p0).  It emits no Move and no Close of its own, never
\* the final point of src, nothing of the contours before the last Move,
\* and leaves dst as it is when src is empty.  (A first segment appended to
\* a dst with no open contour starts one, as every SkPath segment does.)
C9_ReversePathTo ==
    (pc = "reversed") =>
        LET src == fInner
            segs == IF SkPath_isEmpty(src) THEN <<>> ELSE LastContourSegments(src)
            base == IF Len(segs) = 0 THEN dst0
                    ELSE SkPath_injectMoveToIfNeeded(dst0)
        IN  /\ SkPath_isEmpty(src) => fOuter = dst0
            /\ fOuter.verbs = base.verbs \o Reversed(segs)
            /\ ~SkPath_isEmpty(src) =>
                   /\ fOuter.pts =
                          base.pts \o (IF Len(segs) = 0 THEN <<>>
                                       ELSE Reversed(LastContourHead(src)))
                   /\ fOuter.ws = base.ws \o Reversed(LastContourWeights(src))
            /\ (dst0 = OpenPath) =>
                   /\ SubSeq(fOuter.verbs, 1, Len(dst0.verbs)) = dst0.verbs
                   /\ \A k \in (Len(dst0.verbs) + 1)..Len(fOuter.verbs) :
                          fOuter.verbs[k] \notin {"Move", "Close"}

\* a source of two contours, the last one [Move, Line a, Line b] with a # b,
\* reversed onto an open destination
C9_Witness ==
    /\ pc = "reversed"
    /\ dst0 = OpenPath
    /\ Len(fInner.verbs) > 3
    /\ LastMoveVerb(fInner) = Len(fInner.verbs) - 2
    /\ LastContourSegments(fInner) = <<"Line", "Line">>
    /\ fInner.pts[Len(fInner.pts)] # fInner.pts[Len(fInner.pts) - 1]
    /\ Len(fOuter.verbs) = Len(dst0.verbs) + 2

\* ------------------------------------------------------------------------
\* Properties of StrokePathWithOpts (checked under SpecPath)
\* ------------------------------------------------------------------------
\* StrokePathWithOpts was entered
PathCalled == caller \in {"skpath_stroke", "direct"} /\ pc # "bindings" /\ ~pNull

\* the path src referred to when StrokePathWithOpts was entered
SrcOnEntry == IF aliased THEN dst0 ELSE srcPath

\* C11: StrokePathWithOpts called with a non-finite source path resets dst
\* to the empty path and returns false without invoking the stroker (neither
\* applyToPath nor the path stroker runs), for every StrokeOpts and resScale,
\* also when src and dst are the same path.
C11_NonFiniteSrcRejected ==
    (PathCalled /\ ~SkPath_isFinite(SrcOnEntry)) =>
        /\ pc \in {"path_entry", "returned"}
        /\ strokes = <<>>
        /\ applied = "none"
        /\ pc = "returned" => (dst = EmptyPath /\ ret = "false")

\* a non-finite path stroked in place with a thick width and a resolution
\* scale of zero
C11_Witness ==
    /\ PathCalled
    /\ pc = "returned"
    /\ aliased
    /\ dst0 = NonFinitePath
    /\ opts.width > 0
    /\ pathResScale = 0
    /\ dst = EmptyPath

\* C12: StrokePathWithOpts with a finite source path and opts.width <= 0
\* does not invoke the stroker (applyToPath returns false and leaves dst as
\* it was on entry) and then makes dst an exact copy of the source path.
C12_NoStrokeCopiesSrc ==
    (PathCalled /\ SkPath_isFinite(SrcOnEntry) /\ opts.width <= 0) =>
        /\ strokes = <<>>
        /\ pc = "path_finish" => (applied = "false" /\ dst = dst0)
        /\ pc = "returned" => (applied = "false" /\ dst = SrcOnEntry)

\* a fill-only call whose destination held another path than its source
C12_Witness ==
    /\ PathCalled
    /\ pc = "returned"
    /\ ~aliased
    /\ opts.width < 0
    /\ srcPath = OpenPath
    /\ dst0 = FinitePath
    /\ dst = OpenPath

\* C13: StrokePathWithOpts returns false for every finite source path
\* whenever opts.width <= 0 (hairline and fill-only alike), and returns true
\* only when a thick stroke (width > 0) was applied.
C13_NoChangeReturnsFalse ==
    (PathCalled /\ pc = "returned" /\ SkPath_isFinite(SrcOnEntry)) =>
        /\ opts.width <= 0 => ret = "false"
        /\ ret = "true" => (opts.width > 0 /\ strokes # <<>>)

\* C15: in every call that comes from a binding with a caller-supplied
\* resolution scale, the stroker sees a resolution scale above zero.
C15_ResScalePositive ==
    (caller \in {"skpath_stroke", "ApplyStroke"} /\ pc # "bindings" /\ ~pNull) =>
        /\ pathResScale > 0
        /\ \A k \in 1..Len(strokes) : strokes[k].resScale > 0

\* ------------------------------------------------------------------------
\* Properties of the InkStroker constructor (checked under Spec)
\* ------------------------------------------------------------------------
\* C14: an InkStroker constructed with join = Miter and miterLimit <= 1 uses
\* the Bevel join procedure with inverse miter limit 0; with join = Miter and
\* miterLimit > 1 it uses the Miter join procedure with inverse miter limit
\* 1/miterLimit; with join = Round or Bevel the join is kept and the inverse
\* miter limit is 0.
C14_MiterLimitForcesBevel ==
    built =>
        /\ (paint.join = "Miter" /\ paint.miter <= 1) =>
              (fJoiner = JoinFactory("Bevel") /\ fInvMiterLimit = 0)
        /\ (paint.join = "Miter" /\ paint.miter > 1) =>
              /\ fJoiner = JoinFactory("Miter")
              /\ fInvMiterLimit * paint.miter = UnitOne
        /\ paint.join \in {"Round", "Bevel"} =>
              (fJoiner = JoinFactory(paint.join) /\ fInvMiterLimit = 0)

\* a stroker built for a miter join with a miter limit of exactly one
C14_Witness ==
    /\ built
    /\ paint.join = "Miter"
    /\ paint.miter = 1
    /\ fJoiner = JoinFactory("Bevel")
    /\ fInvMiterLimit = 0

\* ------------------------------------------------------------------------
\* Properties of StylusPoint and of the filter of lineTo (checked under Spec)
\* ------------------------------------------------------------------------
\* the pressures of the stylus samples
Pressures == {sp.pressure : sp \in StylusInputs}

\* C16: StylusPoint equality and inequality depend on the position only: a
\* sample at the (finite) position of the previous point compares equal to
\* it whatever its pressure, and the filter of lineTo decides on it exactly
\* as on an identical copy of the previous point.
C16_PressureIgnored ==
    (built /\ fSegmentCount >= 0 /\ fPrevPt.point.fin) =>
        \A p \in Pressures :
            /\ StylusEQ(fPrevPt, [fPrevPt EXCEPT !.pressure = p])
            /\ ~StylusNE(fPrevPt, [fPrevPt EXCEPT !.pressure = p])
            /\ TeenyDrop([fPrevPt EXCEPT !.pressure = p]) <=> TeenyDrop(fPrevPt)

\* a sample at the previous position with another pressure went through
\* lineTo and was taken as the duplicate that makes a dot
C16_Witness ==
    /\ built
    /\ last.op = "lineTo"
    /\ last.accepted
    /\ last.pt.point = last.pre[3].point
    /\ last.pt.pressure # last.pre[3].pressure
    /\ fSegmentCount = 1

\* ------------------------------------------------------------------------
\* Properties of the running state of an InkStroker (checked under
\* SpecStroker)
\* ------------------------------------------------------------------------
\* the number of lineTo calls after the last moveTo, close or done of t
RECURSIVE LineTosSinceStart(_)
LineTosSinceStart(t) ==
    IF t = <<>> \/ t[Len(t)] # "lineTo" THEN 0
    ELSE 1 + LineTosSinceStart(SubSeq(t, 1, Len(t) - 1))

\* C17: with every lineTo called on an open contour, the segment counter is
\* -1 after construction and after every close() and done(); directly after
\* moveTo(p) it is 0 with first = prev = p and join-completed false; an
\* accepted lineTo adds exactly 1 and sets prev to the new point and
\* join-completed to true, a dropped lineTo adds 0 and keeps both, so that
\* the counter is the number of lineTo calls accepted since the last moveTo;
\* it is never below -1.
C17_SegmentCounter ==
    /\ fSegmentCount >= -1
    /\ last.op \in {"none", "close", "done"} => fSegmentCount = -1
    /\ last.op = "moveTo" =>
          /\ fSegmentCount = 0
          /\ fFirstPt = last.pt
          /\ fPrevPt = last.pt
          /\ ~fJoinCompleted
    /\ last.op = "lineTo" =>
          /\ last.seg >= 0
          /\ fSegmentCount = last.seg + (IF last.accepted THEN 1 ELSE 0)
          /\ last.accepted => (fPrevPt = last.pt /\ fJoinCompleted)
          /\ ~last.accepted =>
                (fPrevPt = last.pre[3] /\ fJoinCompleted = last.pre[7])
    /\ fSegmentCount >= 0 => fSegmentCount <= LineTosSinceStart(trace)

\* three lineTo calls on one contour, of which one was dropped
C17_Witness ==
    /\ trace = <<"moveTo", "lineTo", "lineTo", "lineTo">>
    /\ last.accepted
    /\ fSegmentCount = 2
    /\ fPrevPt = last.pt
    /\ fJoinCompleted

\* the operations that finalize a contour
Finalizing == last.op \in {"moveTo", "done", "close"}

\* C18: finalizing a contour with at least one accepted segment as open, by
\* done() or by a following moveTo, invokes the cap procedure exactly twice
\* (for the end with the last point and the last normal, then for the start
\* with the first point and the negated first normal) and never the join
\* procedure; finalizing it by close() invokes the join procedure exactly
\* once (from the last unit normal to the first) and never the cap
\* procedure; finalizing a contour without accepted segment invokes neither.
C18_CapsOrJoin ==
    /\ (last.op \in {"moveTo", "done"} /\ last.seg > 0) =>
          /\ Len(last.procs) = 2
          /\ last.procs[1].proc = "cap"
          /\ last.procs[1].pivot = last.pre[3].point
          /\ last.procs[1].normal = last.pre[4][2]
          /\ last.procs[2].proc = "cap"
          /\ last.procs[2].pivot = last.pre[2].point
          /\ last.procs[2].normal = PtNeg(last.pre[4][1])
    /\ (last.op = "close" /\ last.seg > 0) =>
          /\ Len(last.procs) = 1
          /\ last.procs[1].proc = "join"
          /\ last.procs[1].pivot = last.pre[3].point
          /\ last.procs[1].before = last.pre[4][4]
          /\ last.procs[1].after = last.pre[4][3]
    /\ (Finalizing /\ last.seg <= 0) => last.procs = <<>>

\* a contour of two segments finalized by the moveTo that follows it
C18_Witness ==
    /\ trace = <<"moveTo", "lineTo", "lineTo", "moveTo">>
    /\ last.seg = 2
    /\ Len(last.procs) = 2
    /\ last.procs[1].pivot # last.procs[2].pivot

\* a contour of two segments finalized by close()
C18_WitnessClose ==
    /\ trace = <<"moveTo", "lineTo", "lineTo", "close">>
    /\ last.seg = 2
    /\ Len(last.procs) = 1

\* the last lineTo came with a point within the tolerance of the previous one
LastTeeny == EqualsWithinTolerance(last.pre[3].point, last.pt.point)

\* C19: lineTo(curr) is dropped by the degeneracy filter if and only if
\* curr's position is within the tolerance of the previous point's position
\* and (the cap is Butt, or join-completed is set, or the two positions
\* differ exactly); a within-tolerance segment is accepted only when the cap
\* is not Butt, no segment was accepted yet in the contour and the positions
\* are exactly equal.  (A lineTo dropped outside the tolerance was not
\* dropped by the filter: its normal could not be computed under a Butt cap.)
C19_DegeneracyFilter ==
    last.op = "lineTo" =>
        /\ LastTeeny =>
              (~last.accepted <=>
                  \/ CapFactory("Butt") = fCapper
                  \/ last.pre[7]
                  \/ PointNE(last.pre[3].point, last.pt.point))
        /\ (LastTeeny /\ last.accepted) =>
              /\ CapFactory("Butt") # fCapper
              /\ last.pre[1] = 0
              /\ ~PointNE(last.pre[3].point, last.pt.point)
        /\ (~LastTeeny /\ ~last.accepted) =>
              /\ CapFactory("Butt") = fCapper
              /\ ~set_normal_unitnormal(last.pre[3].point, last.pt.point,
                                        fResScale, fRadius).ok

\* a first segment that is within the tolerance but not exactly zero is
\* dropped although the cap is not Butt
C19_Witness ==
    /\ last.op = "lineTo"
    /\ ~last.accepted
    /\ LastTeeny
    /\ PointNE(last.pre[3].point, last.pt.point)
    /\ CapFactory("Butt") # fCapper
    /\ ~last.pre[7]
    /\ last.pre[1] = 0

\* C20: a lineTo that is dropped, by the degeneracy filter or because the
\* normal cannot be computed while the cap is Butt, is a complete no-op:
\* outer, inner, the segment counter, the first and previous points, the
\* first and previous normals and unit normals, previous-is-line and
\* join-completed are all as they were before the call, and no join
\* procedure was invoked.
C20_DroppedLineToNoOp ==
    (last.op = "lineTo" /\ ~last.accepted) =>
        /\ runVars = last.pre
        /\ last.procs = <<>>

\* a lineTo given up under a Butt cap after a segment was accepted
C20_Witness ==
    /\ last.op = "lineTo"
    /\ ~last.accepted
    /\ ~LastTeeny
    /\ CapFactory("Butt") = fCapper
    /\ fSegmentCount = 1
    /\ fPrevIsLine
    /\ fInner # EmptyPath

\* ------------------------------------------------------------------------
\* Properties of the outline of a contour (checked under SpecStroker)
\* ------------------------------------------------------------------------
\* the number of verbs v in path p
VerbCount(p, v) == Cardinality({k \in 1..Len(p.verbs) : p.verbs[k] = v})

\* the last operation was a lineTo that was accepted
LineToAccepted == last.op = "lineTo" /\ last.accepted

\* C21: within one contour the first accepted segment seeds outer with
\* Move(prev + normal) and inner with Move(prev - normal), records the first
\* normal, unit normal and outer point, and invokes no join; every later
\* accepted segment invokes the join procedure exactly once, and its Line is
\* the last verb of outer and of inner.  A contour with n >= 1 accepted
\* segments has caused n - 1 join invocations when it is finalized open and
\* n when it is finalized by close(), and outer and inner each hold exactly
\* one Move for it.
C21_SeedThenJoin ==
    /\ (LineToAccepted /\ last.seg = 0) =>
          /\ last.procs = <<>>
          /\ fOuter.verbs = last.pre[9].verbs \o <<"Move", "Line">>
          /\ fOuter.pts = last.pre[9].pts \o
                <<PtAdd(last.pre[3].point, fFirstNormal),
                  PtAdd(last.pt.point, fPrevNormal)>>
          /\ fInner.verbs = <<"Move", "Line">>
          /\ fInner.pts = <<PtSub(last.pre[3].point, fFirstNormal),
                            PtSub(last.pt.point, fPrevNormal)>>
          /\ fFirstOuterPt = PtAdd(last.pre[3].point, fFirstNormal)
          /\ fFirstUnitNormal = fPrevUnitNormal
          /\ fFirstNormal = UnitScale(fFirstUnitNormal,
                                      fRadius * last.pre[3].pressure)
    /\ (LineToAccepted /\ last.seg > 0) =>
          /\ Len(last.procs) = 1
          /\ last.procs[1].proc = "join"
          /\ LastVerb(fOuter) = "Line"
          /\ LastVerb(fInner) = "Line"
          /\ SkPath_getLastPt(fOuter) = PtAdd(last.pt.point, fPrevNormal)
          /\ SkPath_getLastPt(fInner) = PtSub(last.pt.point, fPrevNormal)
          /\ Len(fOuter.verbs) > Len(last.pre[9].verbs)
          /\ Len(fInner.verbs) > Len(last.pre[8].verbs)
          /\ last.pre[4][1] = fFirstNormal
          /\ last.pre[4][3] = fFirstUnitNormal
    /\ (last.op \in {"moveTo", "done"} /\ last.seg >= 1) =>
          last.joins = last.seg - 1
    /\ (last.op = "close" /\ last.seg >= 1) => last.joins = last.seg
    /\ fSegmentCount >= 1 =>
          /\ VerbCount(fInner, "Move") = 1
          /\ VerbCount(fOuter, "Move") = VerbCount(last.base, "Move") + 1

\* a contour of two accepted segments, closed: two joins
C21_Witness ==
    /\ trace = <<"moveTo", "lineTo", "lineTo", "close">>
    /\ last.seg = 2
    /\ last.joins = 2

\* ------------------------------------------------------------------------
\* Properties of the offset lines of a segment (checked under Spec)
\* ------------------------------------------------------------------------
\* the number of Line verbs ending at p among the verbs a path gained beyond
\* its first n
GainedLinesTo(path, n, p) ==
    Cardinality({k \in (n + 1)..Len(path.verbs) :
                    /\ path.verbs[k] = "Line"
                    /\ path.pts[PtsBefore(path.verbs, k)] = p})

\* the squared length of a vector
LengthSqd(v) == v.x * v.x + v.y * v.y

\* the last lineTo was accepted for a segment with a direction
SegmentAccepted ==
    /\ LineToAccepted
    /\ last.pt.point.fin
    /\ last.pre[3].point.fin
    /\ ~EqualsWithinTolerance(last.pre[3].point, last.pt.point)

\* the accepted lineTo made the first segment of a stroke of uniform pressure
StraightUniform ==
    /\ SegmentAccepted
    /\ last.seg = 0
    /\ last.pre[3].pressure = last.pt.pressure

\* the seed points and the appended points of outer and inner are the
\* corners of a rectangle along the segment, 2 * halfWidth wide
RectangleOf(halfWidth) ==
    /\ fOuter.pts = last.pre[9].pts \o
          <<PtAdd(last.pre[3].point, fPrevNormal),
            PtAdd(last.pt.point, fPrevNormal)>>
    /\ fInner.pts = <<PtSub(last.pre[3].point, fPrevNormal),
                      PtSub(last.pt.point, fPrevNormal)>>
    /\ fPrevNormal.x * (last.pt.point.x - last.pre[3].point.x)
          + fPrevNormal.y * (last.pt.point.y - last.pre[3].point.y) = 0
    /\ LengthSqd(fPrevNormal) = halfWidth * halfWidth

\* each accepted lineTo(curr) ends by a Line of outer to curr + n and a Line
\* of inner to curr - n, with n the unit normal of the segment scaled by
\* radius x curr.pressure; the midpoint of the two points is curr; for a
\* segment with a direction the unit normal is perpendicular to it and no
\* other Line the operation adds ends at curr + n or curr - n
OffsetLines ==
    (LineToAccepted /\ last.pt.point.fin) =>
        /\ LastVerb(fOuter) = "Line"
        /\ LastVerb(fInner) = "Line"
        /\ fPrevNormal = UnitScale(fPrevUnitNormal, fRadius * last.pt.pressure)
        /\ SkPath_getLastPt(fOuter) = PtAdd(last.pt.point, fPrevNormal)
        /\ SkPath_getLastPt(fInner) = PtSub(last.pt.point, fPrevNormal)
        /\ PtAdd(SkPath_getLastPt(fOuter), SkPath_getLastPt(fInner))
              = PtScale(last.pt.point, 2)
        /\ SegmentAccepted =>
              /\ GainedLinesTo(fOuter, Len(last.pre[9].verbs),
                               PtAdd(last.pt.point, fPrevNormal)) = 1
              /\ GainedLinesTo(fInner, Len(last.pre[8].verbs),
                               PtSub(last.pt.point, fPrevNormal)) = 1
              /\ LengthSqd(fPrevUnitNormal) = UnitOne * UnitOne
              /\ fPrevUnitNormal.x * (last.pt.point.x - last.pre[3].point.x)
                    + fPrevUnitNormal.y * (last.pt.point.y - last.pre[3].point.y)
                    = 0

\* C22 as stated: the offset lines of each accepted lineTo, and for a
\* straight 2-point line of uniform pressure a rectangle as wide as the
\* stroke width.
C22_OffsetRectangle_Original ==
    /\ OffsetLines
    /\ StraightUniform => RectangleOf(fRadius)

\* C22: each accepted lineTo(curr) ends by a Line of outer to curr + n and a
\* Line of inner to curr - n with n the segment's unit normal scaled by
\* radius x curr.pressure, so that their midpoint is curr; for a straight
\* 2-point line of uniform pressure p the two seed points and the two
\* appended points are the corners of a rectangle whose long sides are
\* parallel to the segment and whose width is the stroke width times p.
C22_OffsetRectangle ==
    /\ OffsetLines
    /\ StraightUniform => RectangleOf(fRadius * last.pt.pressure)

\* a straight line of two samples of pressure 2: the rectangle is twice the
\* stroke width wide
C22_Witness ==
    /\ StraightUniform
    /\ last.pt.pressure = 2
    /\ paint.width = 10
    /\ LengthSqd(fPrevNormal) = 100
    /\ dst0 = EmptyPath

\* ------------------------------------------------------------------------
\* Properties of the joins, of done() and of close() (checked under
\* SpecStroker)
\* ------------------------------------------------------------------------
\* C23: every invocation of the join procedure pivots on the previous stylus
\* point p and receives the radius strokeRadius x p.pressure, in lineTo and
\* in close() alike.
C23_JoinRadius ==
    \A k \in 1..Len(last.procs) :
        last.procs[k].proc = "join" =>
            /\ last.procs[k].pivot = last.pre[3].point
            /\ last.procs[k].radius = fRadius * last.pre[3].pressure

\* C24: after done(dst), for any operations before it and whatever dst held,
\* dst holds the outline the stroker had accumulated in outer (the verbs of
\* outer as it was, followed for an open contour with segments by its
\* finalization, which starts no contour and ends in Close) and nothing of
\* what dst held; outer holds exactly what dst held before the call (a swap,
\* not a copy), inner is empty and the segment counter is -1.
C24_DoneSwaps ==
    last.op = "done" =>
        /\ fOuter = last.dstPre
        /\ fInner = EmptyPath
        /\ fSegmentCount = -1
        /\ SubSeq(dst.verbs, 1, Len(last.pre[9].verbs)) = last.pre[9].verbs
        /\ VerbCount(dst, "Move") = VerbCount(last.pre[9], "Move")
        /\ last.seg <= 0 => dst = last.pre[9]
        /\ last.seg > 0 =>
              /\ LastVerb(dst) = "Close"
              /\ Len(dst.verbs) >= Len(last.pre[9].verbs)
                                      + Len(last.pre[8].verbs)

\* a contour of one segment finished by done() into a dst that held a path
C24_Witness ==
    /\ trace = <<"moveTo", "lineTo", "done">>
    /\ last.seg = 1
    /\ fOuter = FinitePath
    /\ dst # FinitePath
    /\ LastVerb(dst) = "Close"

\* the last operation closed a contour with segments, ignore-center off
ClosedKeepingCenter == last.op = "close" /\ last.seg >= 1 /\ ~fCanIgnoreCenter

\* C25 as stated: close() with ignore-center disabled on a contour with
\* segments yields a single contour, with exactly one Move and exactly one
\* Close in the output for it.
C25_ClosedContours_Original ==
    ClosedKeepingCenter =>
        /\ VerbCount(fOuter, "Move") = VerbCount(last.base, "Move") + 1
        /\ VerbCount(fOuter, "Close") = VerbCount(last.base, "Close") + 1

\* C25: close() with ignore-center disabled on a contour with segments
\* yields two contours: the outer boundary, closed, followed immediately by
\* a contour of its own that starts with a Move to the last point of inner,
\* traverses inner in reverse and is closed; exactly two Moves and two Closes
\* are in the output for the stroked contour.
C25_ClosedContours ==
    ClosedKeepingCenter =>
        /\ VerbCount(fOuter, "Move") = VerbCount(last.base, "Move") + 2
        /\ VerbCount(fOuter, "Close") = VerbCount(last.base, "Close") + 2
        /\ LastVerb(last.closedOuter) = "Close"
        /\ LastVerb(fOuter) = "Close"
        /\ SubSeq(fOuter.verbs, 1, Len(last.closedOuter.verbs) + 1)
              = Append(last.closedOuter.verbs, "Move")
        /\ SubSeq(fOuter.pts, 1, Len(last.closedOuter.pts) + 1)
              = Append(last.closedOuter.pts, SkPath_getLastPt(last.joinedInner))
        /\ SubSeq(fOuter.verbs, Len(last.closedOuter.verbs) + 2,
                  Len(fOuter.verbs) - 1)
              = Reversed(LastContourSegments(last.joinedInner))
        /\ SubSeq(fOuter.pts, Len(last.closedOuter.pts) + 2, Len(fOuter.pts))
              = Reversed(LastContourHead(last.joinedInner))

\* a closed contour of two segments: two Moves and two Closes
C25_Witness ==
    /\ ClosedKeepingCenter
    /\ last.seg = 2
    /\ trace = <<"moveTo", "lineTo", "lineTo", "close">>
    /\ VerbCount(fOuter, "Move") = 2
    /\ VerbCount(fOuter, "Close") = 2

\* ------------------------------------------------------------------------
\* Properties of strokeInk (checked under Spec)
\* ------------------------------------------------------------------------
\* a stylus tap: a stroker was built (width > 0) for two or more samples
\* that all have exactly the same finite position
Tap ==
    /\ built
    /\ point_count >= 2
    /\ \A k \in 1..point_count :
          points[k].point.fin /\ points[k].point = points[1].point

\* C26: stroking a tap with a Round or Square cap accepts exactly one
\* segment, the first, with the fallback normal (radius x pressure, 0) and
\* unit normal (1, 0); every later duplicate is dropped, no join is invoked
\* and the output is not empty; with a Butt cap no segment is accepted and
\* the output is empty.  A zero-length segment is only ever accepted as the
\* first segment of a contour.
C26_Tap ==
    /\ (Tap /\ CapFactory("Butt") # fCapper) =>
          /\ last.op = "lineTo" => (last.accepted <=> i = 2)
          /\ (pc = "loop" /\ i >= 2) =>
                /\ fSegmentCount = 1
                /\ fFirstNormal = Pt(fRadius * points[1].pressure, 0)
                /\ fFirstUnitNormal = Pt(UnitOne, 0)
                /\ fPrevUnitNormal = Pt(UnitOne, 0)
          /\ JoinsIn(last.procs) = 0
          /\ last.joins = 0
          /\ Returned => (ret = "true" /\ ~SkPath_isEmpty(dst))
    /\ (Tap /\ CapFactory("Butt") = fCapper) =>
          /\ last.op = "lineTo" => ~last.accepted
          /\ (pc = "loop" /\ i >= 1) => fSegmentCount = 0
          /\ last.procs = <<>>
          /\ Returned => SkPath_isEmpty(dst)
    /\ (LineToAccepted /\ last.pt.point.fin
            /\ last.pt.point = last.pre[3].point) => last.seg = 0

\* a tap of three samples under a round cap, stroked
C26_Witness ==
    /\ Tap
    /\ point_count = 3
    /\ paint.cap = "Round"
    /\ Returned
    /\ ~SkPath_isEmpty(dst)
    /\ dst0 = EmptyPath

\* ------------------------------------------------------------------------
\* Properties of the finalization of a contour (checked under SpecStroker)
\* ------------------------------------------------------------------------
\* the last operation finalized a contour with segments as open
FinalizedOpen == last.op \in {"moveTo", "done"} /\ last.seg >= 1

\* the outline a finalization left: done() swaps it into dst
Outline == IF last.op = "done" THEN dst ELSE fOuter

\* outer with the end cap: the cap procedure at the last point with the last
\* normal, towards the last point of inner
EndCapped ==
    Capper(fCapper, last.pre[9], last.pre[3].point, last.pre[4][2],
           SkPath_getLastPt(last.pre[8]), last.op = "done" /\ last.accepted)

\* path o with the start cap: the cap procedure at the first point with the
\* negated first normal, towards the first outer point
StartCapped(o) ==
    Capper(fCapper, o, last.pre[2].point, PtNeg(last.pre[4][1]),
           last.pre[4][5], last.pre[6])

\* C27: for an open contour with at least one accepted segment the
\* finalization emits into outer, in this order, the end cap (at the last
\* point, towards inner's last point), the reverse of inner, the start cap
\* (at the first point, towards the first outer point) and Close; the start
\* cap is not emitted before inner is reverse-appended.
C27_OpenFinalizeOrder ==
    FinalizedOpen =>
        /\ Outline = SkPath_close(StartCapped(reversePathTo(EndCapped,
                                                            last.pre[8])))
        /\ LastVerb(Outline) = "Close"
        /\ Len(last.procs) = 2
        /\ last.procs[1].pivot = last.pre[3].point
        /\ last.procs[1].stop = SkPath_getLastPt(last.pre[8])
        /\ last.procs[2].pivot = last.pre[2].point
        /\ last.procs[2].stop = last.pre[4][5]
        /\ fCapper = "Butt" =>
              SubSeq(Outline.verbs, Len(last.pre[9].verbs) + 1,
                     Len(Outline.verbs))
                 = <<"Line">> \o Reversed(LastContourSegments(last.pre[8]))
                      \o <<"Line", "Close">>

\* an open contour of two segments with a corner, finalized by done() under
\* a round cap
C27_Witness ==
    /\ FinalizedOpen
    /\ last.op = "done"
    /\ last.seg = 2
    /\ fCapper = "Round"
    /\ Len(last.pre[8].verbs) > 3
    /\ VerbCount(dst, "Conic") >= 4

\* ------------------------------------------------------------------------
\* Properties of the calls strokeInk makes (checked under Spec)
\* ------------------------------------------------------------------------
\* the stroker operations of the first n turns of the loop of strokeInk
LoopTrace(n) == [k \in 1..n |-> IF k = 1 THEN "moveTo" ELSE "lineTo"]

\* C28: in every execution of strokeInk with radius > 0 and point_count >= 1
\* the stroker receives moveTo for point 0, then lineTo for each of the
\* points 1..point_count-1 in input order, then done exactly once, after
\* point_count turns of the loop; so every lineTo (and with it every call of
\* preJoinTo) happens with the segment counter >= 0, after a moveTo has set
\* the previous point and cleared join-completed.
C28_CallOrder ==
    built =>
        /\ point_count >= 1
        /\ StrokeRadius > 0
        /\ i <= point_count
        /\ pc = "loop" => trace = LoopTrace(i)
        /\ pc # "loop" =>
              (i = point_count /\ trace = Append(LoopTrace(point_count), "done"))
        /\ last.op = "moveTo" => (i = 1 /\ last.pt = points[1])
        /\ last.op = "lineTo" =>
              /\ i >= 2
              /\ last.pt = points[i]
              /\ last.seg >= 0
              /\ last.pre[2] = points[1]
              /\ last.pre[3] \in {points[k] : k \in 1..(i - 1)}
              /\ i = 2 => ~last.pre[7]
        /\ last.op = "done" => lastSegment = (IF point_count > 1 THEN "Line" ELSE "Move")

\* a stroke of three samples, returned
C28_Witness ==
    /\ built
    /\ Returned
    /\ point_count = 3
    /\ trace = <<"moveTo", "lineTo", "lineTo", "done">>
    /\ points[1] # points[2]
    /\ points[2] # points[3]

\* path p starts with the verbs and the points of path q
StartsWith(p, q) ==
    /\ Len(p.verbs) >= Len(q.verbs)
    /\ Len(p.pts) >= Len(q.pts)
    /\ SubSeq(p.verbs, 1, Len(q.verbs)) = q.verbs
    /\ SubSeq(p.pts, 1, Len(q.pts)) = q.pts

\* C29: for every configuration of the stroker, ignore-center on or off, and
\* every sequence of moveTo, lineTo and close, finalizing a contour keeps
\* what the contours finalized earlier contributed: outer after the
\* finalization starts with the verbs and points outer held when the
\* contour was begun.
C29_EarlierContoursKept ==
    (last.op \in {"moveTo", "close"} /\ last.seg >= 1) =>
        StartsWith(fOuter, last.base)


\* the path is one closed contour: it starts with its only Move and ends with
\* its only Close
OneClosedContour(p) ==
    /\ SkPath_countVerbs(p) >= 2
    /\ p.verbs[1] = "Move"
    /\ p.verbs[SkPath_countVerbs(p)] = "Close"
    /\ VerbCount(p, "Move") = 1
    /\ VerbCount(p, "Close") = 1

\* strokeInk has run its stroker on a dst that was empty on entry
StrokedIntoEmpty == pc = "check" /\ built /\ dst0 = EmptyPath

\* C30: for a radius above zero and a dst that is empty on entry, the path
\* strokeInk leaves in dst is empty or exactly one closed contour (first verb
\* Move, last verb Close, no other Move or Close); it is empty exactly when
\* no segment was accepted, so a contour without an accepted segment
\* contributes no verb and no point.
C30_OneClosedContour ==
    StrokedIntoEmpty =>
        /\ dst = EmptyPath \/ OneClosedContour(dst)
        /\ (dst = EmptyPath) <=> (last.seg <= 0)

C30_Witness ==
    /\ StrokedIntoEmpty
    /\ last.op = "done"
    /\ last.seg = 2
    /\ OneClosedContour(dst)
    /\ SkPath_isFinite(dst)

====
